---- MODULE Spec2Model ----
(***************************************************************************)
(* Model of the employee hash table of src/main.cpp (EmployeeHashTable,    *)
(* Employee, Validator).  Strings are sequences of character codes, a      *)
(* chain is the sequence of the records of its nodes, head first, and a    *)
(* table object is a record of its three data members.                     *)
(***************************************************************************)
EXTENDS Integers, Sequences, FiniteSets, TLC

(***************************************************************************)
(* Bounds of the model.                                                    *)
(***************************************************************************)
\* number of distinct employee ids the callers use
NumKeys == 2
\* Insert is not called once a table holds this many nodes
MaxElements == 3
\* the same, while a second table object is in use
MaxMoveElements == 2
\* largest bucket count a caller passes to the constructor
MaxInitialBuckets == 3
\* number of distinct ids inserted in the growth scenarios
NumGrowKeys == 13

\* largest number of record lines of a data file that is loaded
MaxLoadLines == 3

\* number of calls the threads make in all
MaxCalls == 3
\* number of threads that call insert, remove, find and search while two
\* other threads move the tables
NumCallers == 1

(***************************************************************************)
(* Strings.                                                                *)
(***************************************************************************)
Range(s) == {s[i] : i \in 1..Len(s)}

Upper == 65..90
Lower == 97..122
Digit == 48..57
\* the characters \s matches: \t \n \v \f \r and space
Space == (9..13) \cup {32}

\* "AB1234", "ZZ9999", "CD5678", "XX0069", "EF0001", ...
KeyPool ==
  << <<65,66,49,50,51,52>>, <<90,90,57,57,57,57>>, <<67,68,53,54,55,56>>,
     <<88,88,48,48,54,57>>, <<69,70,48,48,48,49>>, <<71,72,48,48,48,50>>,
     <<73,74,48,48,48,51>>, <<75,76,48,48,48,52>>, <<77,78,48,48,48,53>>,
     <<79,80,48,48,48,54>>, <<81,82,48,48,48,55>>, <<83,84,48,48,48,56>>,
     <<85,86,48,48,48,57>>, <<87,88,48,48,49,48>>, <<89,90,48,48,49,49>>,
     <<65,65,48,48,48,48>> >>

\* "ab1234": not an id the Validator accepts
BadId == <<97,98,49,50,51,52>>

Keys == {KeyPool[i] : i \in 1..NumKeys}
GrowKeys == {KeyPool[i] : i \in 1..NumGrowKeys}
AllIds == {KeyPool[i] : i \in 1..Len(KeyPool)} \cup {BadId}

(***************************************************************************)
(* Validator (src/main.cpp 67-93): std::regex_match over the whole string. *)
(***************************************************************************)
isValidID(id) ==
  /\ Len(id) = 6
  /\ \A i \in 1..2 : id[i] \in Upper
  /\ \A i \in 3..6 : id[i] \in Digit

isValidName(name) ==
  /\ Len(name) >= 2 /\ Len(name) <= 50
  /\ Range(name) \subseteq (Upper \cup Lower \cup Space \cup {39, 45})

isValidPosition(position) ==
  /\ Len(position) >= 2 /\ Len(position) <= 30
  /\ Range(position) \subseteq (Upper \cup Lower \cup Space \cup {45})

\* a salary is a number of hundredths
CentsPerUnit == 100

isValidSalary(salary) == salary >= 0 /\ salary <= 10000000 * CentsPerUnit

\* [a-zA-Z0-9._%+-]+ @ [a-zA-Z0-9.-]+ \. [a-zA-Z]{2,}
isValidEmail(email) ==
  \E a \in 1..Len(email) : \E d \in 1..Len(email) :
    /\ email[a] = 64 /\ email[d] = 46
    /\ a > 1 /\ d > a + 1 /\ Len(email) >= d + 2
    /\ \A i \in 1..(a-1) :
         email[i] \in Upper \cup Lower \cup Digit \cup {46, 95, 37, 43, 45}
    /\ \A i \in (a+1)..(d-1) :
         email[i] \in Upper \cup Lower \cup Digit \cup {46, 45}
    /\ \A i \in (d+1)..Len(email) : email[i] \in Upper \cup Lower

\* \+?\d{10,15}
isValidPhone(phone) ==
  LET digits == IF Len(phone) > 0 /\ phone[1] = 43 THEN Tail(phone) ELSE phone
  IN /\ Len(digits) >= 10 /\ Len(digits) <= 15
     /\ Range(digits) \subseteq Digit

(***************************************************************************)
(* Employee::validate (src/main.cpp 142-155): the message of the exception *)
(* thrown, or "ok".                                                        *)
(***************************************************************************)
validate(emp) ==
  IF ~isValidID(emp.id) THEN "Invalid employee ID format"
  ELSE IF ~isValidName(emp.firstName) \/ ~isValidName(emp.lastName)
    THEN "Invalid name format"
  ELSE IF ~isValidPosition(emp.position) THEN "Invalid position format"
  ELSE IF ~isValidSalary(emp.salary) THEN "Invalid salary range"
  ELSE IF emp.email # <<>> /\ ~isValidEmail(emp.email)
    THEN "Invalid email format"
  ELSE IF emp.phone # <<>> /\ ~isValidPhone(emp.phone)
    THEN "Invalid phone format"
  ELSE "ok"

(***************************************************************************)
(* FNV-1a on 64 bits (src/main.cpp 266-276).  A 64-bit value is the        *)
(* sequence of its 8 bytes, least significant first, so that no            *)
(* intermediate value leaves the range of the model checker's integers.    *)
(***************************************************************************)
\* 14695981039346656037 = 0xCBF29CE484222325
FNV_OFFSET_BASIS == <<37, 35, 34, 132, 228, 156, 242, 203>>
\* 1099511628211 = 2^40 + 435
FNV_PRIME_LOW == 435
FNV_PRIME_SHIFT == 5

RECURSIVE BitXor(_, _)
BitXor(a, b) ==
  IF a = 0 THEN b
  ELSE IF b = 0 THEN a
  ELSE (((a % 2) + (b % 2)) % 2) + 2 * BitXor(a \div 2, b \div 2)

\* hash_value ^= c, for a character code below 128
Xor64(h, c) == [h EXCEPT ![1] = BitXor(@, c)]

RECURSIVE MulFrom(_, _, _)
MulFrom(h, i, carry) ==
  IF i > 8 THEN <<>>
  ELSE LET v == h[i] * FNV_PRIME_LOW
                + (IF i > FNV_PRIME_SHIFT THEN h[i - FNV_PRIME_SHIFT] ELSE 0)
                + carry
       IN <<v % 256>> \o MulFrom(h, i + 1, v \div 256)

\* hash_value *= FNV_PRIME, modulo 2^64
Mul64(h) == MulFrom(h, 1, 0)

RECURSIVE FNV1a(_, _)
FNV1a(h, key) ==
  IF key = <<>> THEN h
  ELSE FNV1a(Mul64(Xor64(h, Head(key))), Tail(key))

RECURSIVE Mod64From(_, _, _, _)
Mod64From(h, i, n, r) ==
  IF i = 0 THEN r ELSE Mod64From(h, i - 1, n, (r * 256 + h[i]) % n)

\* hash_value % bucket_count
Mod64(h, n) == Mod64From(h, 8, n, 0)

\* the 64-bit hash value of every id the callers use, computed once
HashValue == [key \in AllIds |-> FNV1a(FNV_OFFSET_BASIS, key)]

hash(key, bucket_count) == Mod64(HashValue[key], bucket_count)

(***************************************************************************)
(* PrimeSizer (src/main.cpp 278-292).                                      *)
(***************************************************************************)
RECURSIVE is_prime_from(_, _)
is_prime_from(n, i) ==
  IF i * i > n THEN TRUE
  ELSE IF n % i = 0 THEN FALSE
  ELSE is_prime_from(n, i + 2)

is_prime(n) ==
  IF n < 2 THEN FALSE
  ELSE IF n = 2 THEN TRUE
  ELSE IF n % 2 = 0 THEN FALSE
  ELSE is_prime_from(n, 3)

RECURSIVE next_prime(_)
next_prime(n) == IF is_prime(n) THEN n ELSE next_prime(n + 1)

(***************************************************************************)
(* Employee (src/main.cpp 109-128).  salary is a number of hundredths,      *)
(* hireDate a number of clock ticks since the epoch; department, status    *)
(* and accessLevel are the enumerators' values.                            *)
(***************************************************************************)
ENGINEERING == 0
UNKNOWN == 6
ACTIVE == 0
BASIC == 0
ADMIN == 1

\* Employee(): the default constructor
Employee ==
  [id |-> <<>>, firstName |-> <<>>, lastName |-> <<>>, position |-> <<>>,
   department |-> UNKNOWN, salary |-> 0, email |-> <<>>, phone |-> <<>>,
   hireDate |-> 0, status |-> ACTIVE, skills |-> <<>>, managerId |-> <<>>,
   accessLevel |-> BASIC]

\* "Ann", "Bob", "Lee", "Clerk", "Chief Engineer", "C++"
FirstNames == << <<65,110,110>>, <<66,111,98>> >>
LastName == <<76,101,101>>
Positions == << <<67,108,101,114,107>>,
                <<67,104,105,101,102,32,69,110,103,105,110,101,101,114>> >>
\* "a@b.io", "+1234567890"
Email == <<97,64,98,46,105,111>>
Phone == <<43,49,50,51,52,53,54,55,56,57,48>>

\* the valid records the callers build for an id: one per first name
ValidEmployee(id, v) ==
  [Employee EXCEPT !.id = id, !.firstName = FirstNames[v],
                   !.lastName = LastName, !.position = Positions[v],
                   !.department = ENGINEERING + v - 1,
                   !.salary = 1000 * v * CentsPerUnit,
                   !.email = IF v = 1 THEN <<>> ELSE Email,
                   !.phone = IF v = 1 THEN <<>> ELSE Phone,
                   !.hireDate = v, !.accessLevel = v - 1,
                   !.skills = IF v = 1 THEN <<>> ELSE << <<67,43,43>> >>,
                   !.managerId = IF v = 1 THEN <<>> ELSE KeyPool[1]]

\* records that fail one check of validate each, in the order of its checks
InvalidEmployees ==
  LET e == ValidEmployee(KeyPool[1], 2) IN
  << [e EXCEPT !.id = BadId],
     [e EXCEPT !.lastName = <<76,51>>],
     [e EXCEPT !.phone = <<49,50,51>>],
     [e EXCEPT !.firstName = <<65>>],
     [e EXCEPT !.position = <<81,65,47,49>>],
     [e EXCEPT !.salary = 10000000 * CentsPerUnit + 1],
     [e EXCEPT !.salary = 0 - 1],
     [e EXCEPT !.email = <<97,64,98>>] >>

\* the records the callers pass: one valid record for every id, a second
\* one with other contents for the second id, and invalid ones
ValidInputs(ids) ==
  {ValidEmployee(id, 1) : id \in ids} \cup {ValidEmployee(KeyPool[2], 2)}

InvalidInputs(n) == {InvalidEmployees[i] : i \in 1..n}

(***************************************************************************)
(* EmployeeHashTable (src/main.cpp 251-587).  A table object is            *)
(* [table, bucket_count, element_count]; table[i + 1] is the chain of      *)
(* bucket i.                                                               *)
(***************************************************************************)
\* MAX_LOAD_FACTOR = 0.75 = MAX_LOAD_NUM / MAX_LOAD_DEN
MAX_LOAD_NUM == 3
MAX_LOAD_DEN == 4
\* the default argument of the constructor
DEFAULT_BUCKET_COUNT == 17

\* the load factor taken before the new node is counted
load_factor_exceeds_stale(t) ==
  MAX_LOAD_DEN * (t.element_count - 1) > MAX_LOAD_NUM * t.bucket_count

\* load_factor() > MAX_LOAD_FACTOR: the quotient of two small integers is
\* compared with 0.75, which a double holds exactly
load_factor_exceeds(t) ==
  MAX_LOAD_DEN * t.element_count > MAX_LOAD_NUM * t.bucket_count

\* a table of n empty chains: table.resize(n) on an empty vector
EmptyTable(n) ==
  [table |-> [i \in 1..n |-> <<>>], bucket_count |-> n, element_count |-> 0]

\* EmployeeHashTable(initial_bucket_count)
EmployeeHashTable(initial_bucket_count) ==
  EmptyTable(next_prime(initial_bucket_count))

HasId(chain, id) == \E i \in 1..Len(chain) : chain[i].id = id

\* the position in the chain of the first node that carries id
FirstPos(chain, id) ==
  CHOOSE i \in 1..Len(chain) :
    /\ chain[i].id = id
    /\ \A j \in 1..(i-1) : chain[j].id # id

\* a duplicate overwrites the stored record instead of being rejected
insert_internal_overwrite(t, emp) ==
  LET index == hash(emp.id, t.bucket_count)
      chain == t.table[index + 1]
  IN IF HasId(chain, emp.id)
     THEN [t |-> [t EXCEPT !.table[index + 1][FirstPos(chain, emp.id)] = emp],
           ret |-> FALSE]
     ELSE [t |-> [t EXCEPT !.table[index + 1] = <<emp>> \o @,
                           !.element_count = @ + 1],
           ret |-> TRUE]

insert_internal(t, emp) ==
  LET index == hash(emp.id, t.bucket_count) IN
  IF HasId(t.table[index + 1], emp.id)
  THEN [t |-> t, ret |-> FALSE]
  ELSE [t |-> [t EXCEPT !.table[index + 1] = <<emp>> \o @,
                        !.element_count = @ + 1],
        ret |-> TRUE]

\* the nodes of old_table in the order rehash visits them
RECURSIVE Nodes(_, _)
Nodes(old_table, i) ==
  IF i > Len(old_table) THEN <<>>
  ELSE old_table[i] \o Nodes(old_table, i + 1)

RECURSIVE reinsert(_, _)
reinsert(t, nodes) ==
  IF nodes = <<>> THEN t
  ELSE reinsert(insert_internal(t, Head(nodes)).t, Tail(nodes))

\* the bucket array is doubled without looking for a prime
rehash_doubled(t) ==
  reinsert(EmptyTable(t.bucket_count * 2), Nodes(t.table, 1))

rehash(t) ==
  reinsert(EmptyTable(next_prime(t.bucket_count * 2)), Nodes(t.table, 1))

\* the record is linked in before it is validated
insert_validate_late(t, emp) ==
  LET r == insert_internal(t, emp) IN
  IF validate(emp) # "ok"
  THEN [t |-> r.t, ret |-> "throw", rehashed |-> FALSE]
  ELSE IF r.ret
       THEN IF load_factor_exceeds(r.t)
            THEN [t |-> rehash(r.t), ret |-> "true", rehashed |-> TRUE]
            ELSE [t |-> r.t, ret |-> "true", rehashed |-> FALSE]
       ELSE [t |-> r.t, ret |-> "false", rehashed |-> FALSE]

insert(t, emp) ==
  IF validate(emp) # "ok"
  THEN [t |-> t, ret |-> "throw", rehashed |-> FALSE]
  ELSE LET r == insert_internal(t, emp) IN
       IF r.ret
       THEN IF load_factor_exceeds(r.t)
            THEN [t |-> rehash(r.t), ret |-> "true", rehashed |-> TRUE]
            ELSE [t |-> r.t, ret |-> "true", rehashed |-> FALSE]
       ELSE [t |-> r.t, ret |-> "false", rehashed |-> FALSE]

RemoveAt(chain, i) ==
  [j \in 1..(Len(chain) - 1) |-> IF j < i THEN chain[j] ELSE chain[j + 1]]

remove(t, id) ==
  LET index == hash(id, t.bucket_count)
      chain == t.table[index + 1]
  IN IF HasId(chain, id)
     THEN [t |-> [t EXCEPT !.table[index + 1] =
                              RemoveAt(chain, FirstPos(chain, id)),
                           !.element_count = @ - 1],
           ret |-> "true"]
     ELSE [t |-> t, ret |-> "false"]

\* the record find's pointer refers to, as a one-element sequence;
\* <<>> for nullptr
find(t, id) ==
  LET chain == t.table[hash(id, t.bucket_count) + 1] IN
  IF HasId(chain, id) THEN <<chain[FirstPos(chain, id)]>> ELSE <<>>

\* the record is assigned before it is validated
update_assign_first(t, id, updated_emp) ==
  LET index == hash(id, t.bucket_count)
      chain == t.table[index + 1]
  IN IF HasId(chain, id)
     THEN [t |-> [t EXCEPT !.table[index + 1][FirstPos(chain, id)] =
                              updated_emp],
           ret |-> IF validate(updated_emp) # "ok" THEN "throw" ELSE "true"]
     ELSE [t |-> t, ret |-> "false"]

update(t, id, updated_emp) ==
  LET index == hash(id, t.bucket_count)
      chain == t.table[index + 1]
  IN IF HasId(chain, id)
     THEN IF validate(updated_emp) # "ok"
          THEN [t |-> t, ret |-> "throw"]
          ELSE [t |-> [t EXCEPT !.table[index + 1][FirstPos(chain, id)] =
                                   updated_emp],
                ret |-> "true"]
     ELSE [t |-> t, ret |-> "false"]

\* SearchCriteria (src/main.cpp 236-247): an optional is <<>> when it
\* holds nothing and <<v>> when it holds v
SearchCriteria ==
  [id |-> <<>>, firstName |-> <<>>, lastName |-> <<>>, position |-> <<>>,
   department |-> <<>>, minSalary |-> <<>>, maxSalary |-> <<>>,
   status |-> <<>>, skill |-> <<>>, caseSensitive |-> FALSE]

\* ::tolower on a character code
tolower(c) == IF c \in 65..90 THEN c + 32 ELSE c

\* std::transform(s.begin(), s.end(), s.begin(), ::tolower)
transform_tolower(s) == [i \in 1..Len(s) |-> tolower(s[i])]

\* s.find(sub) != std::string::npos
string_find(s, sub) ==
  \E pos \in 0..(Len(s) - Len(sub)) : SubSeq(s, pos + 1, pos + Len(sub)) = sub

\* the name or position matches only as a prefix
name_matches_prefix(field, wanted, caseSensitive) ==
  IF caseSensitive
  THEN Len(field) >= Len(wanted) /\ SubSeq(field, 1, Len(wanted)) = wanted
  ELSE /\ Len(field) >= Len(wanted)
       /\ SubSeq(transform_tolower(field), 1, Len(wanted))
            = transform_tolower(wanted)

\* the comparison of firstName, lastName, position and of one skill with
\* the criterion (src/main.cpp 485-524)
name_matches(field, wanted, caseSensitive) ==
  IF caseSensitive
  THEN string_find(field, wanted)
  ELSE string_find(transform_tolower(field), transform_tolower(wanted))

\* the value of matches when the scan of search is done with emp
matches(emp, criteria) ==
  /\ (Len(criteria.id) > 0) => emp.id = criteria.id[1]
  /\ (Len(criteria.firstName) > 0) =>
       name_matches(emp.firstName, criteria.firstName[1],
                    criteria.caseSensitive)
  /\ (Len(criteria.lastName) > 0) =>
       name_matches(emp.lastName, criteria.lastName[1],
                    criteria.caseSensitive)
  /\ (Len(criteria.position) > 0) =>
       name_matches(emp.position, criteria.position[1],
                    criteria.caseSensitive)
  /\ (Len(criteria.department) > 0) =>
       emp.department = criteria.department[1]
  /\ (Len(criteria.minSalary) > 0) => ~(emp.salary < criteria.minSalary[1])
  /\ (Len(criteria.maxSalary) > 0) => ~(emp.salary > criteria.maxSalary[1])
  /\ (Len(criteria.status) > 0) => emp.status = criteria.status[1]
  /\ (Len(criteria.skill) > 0) =>
       \E i \in 1..Len(emp.skills) :
         name_matches(emp.skills[i], criteria.skill[1],
                      criteria.caseSensitive)

RECURSIVE search_chain(_, _, _)
search_chain(chain, i, criteria) ==
  IF i > Len(chain) THEN <<>>
  ELSE (IF matches(chain[i], criteria) THEN <<chain[i]>> ELSE <<>>)
         \o search_chain(chain, i + 1, criteria)

\* the matching records of buckets lo..hi, in the order of the scan; the
\* range is halved to keep the evaluation shallow on a table of 101 buckets
RECURSIVE search_from(_, _, _, _)
search_from(t, lo, hi, criteria) ==
  IF lo > hi THEN <<>>
  ELSE IF lo = hi THEN search_chain(t.table[lo], 1, criteria)
  ELSE search_from(t, lo, (lo + hi) \div 2, criteria)
         \o search_from(t, (lo + hi) \div 2 + 1, hi, criteria)

\* search(criteria): the matching records, in the order of the scan
search(t, criteria) == search_from(t, 1, Len(t.table), criteria)

get_all(t) == search(t, SearchCriteria)

size(t) == t.element_count

\* a quotient n / d, d > 0, in units of 1 / scale, as operator<< prints a
\* double with std::fixed and that many decimals (ties go to the even digit)
FixedPoint(n, d, scale) ==
  LET q == (n * scale) \div d
      r == (n * scale) % d
  IN IF 2 * r > d \/ (2 * r = d /\ q % 2 = 1) THEN q + 1 ELSE q

\* the average is taken over all the buckets
get_statistics_all_buckets(t) ==
  [bucket_count |-> t.bucket_count,
   element_count |-> t.element_count,
   load_factor |-> "nan",
   empty_buckets |-> Cardinality({i \in 1..Len(t.table) : t.table[i] = <<>>}),
   empty_percent |-> "nan",
   max_chain_length |->
     IF \A i \in 1..Len(t.table) : t.table[i] = <<>> THEN 0
     ELSE Len(t.table[CHOOSE i \in 1..Len(t.table) :
                \A j \in 1..Len(t.table) : Len(t.table[j]) <= Len(t.table[i])]),
   avg_chain_length |->
     IF t.bucket_count > 0
     THEN FixedPoint(t.element_count, t.bucket_count, 100) ELSE 0]

\* get_statistics: the numbers written to the stream.  Load Factor is in
\* thousandths, the share of empty buckets in tenths of a percent and
\* Avg Chain Length in hundredths; "nan" is the quotient 0 / 0 of doubles
get_statistics(t) ==
  LET lengths == [i \in 1..Len(t.table) |-> Len(t.table[i])]
      empty_buckets == Cardinality({i \in 1..Len(t.table) : lengths[i] = 0})
      max_chain_length ==
        IF \A i \in 1..Len(t.table) : lengths[i] = 0 THEN 0
        ELSE lengths[CHOOSE i \in 1..Len(t.table) :
                       \A j \in 1..Len(t.table) : lengths[j] <= lengths[i]]
      total_chain_length == Len(Nodes(t.table, 1))
  IN [bucket_count |-> t.bucket_count,
      element_count |-> t.element_count,
      load_factor |-> IF t.bucket_count = 0 THEN "nan"
                      ELSE FixedPoint(t.element_count, t.bucket_count, 1000),
      empty_buckets |-> empty_buckets,
      empty_percent |-> IF t.bucket_count = 0 THEN "nan"
                        ELSE FixedPoint(100 * empty_buckets, t.bucket_count, 10),
      max_chain_length |-> max_chain_length,
      avg_chain_length |->
        IF t.bucket_count - empty_buckets > 0
        THEN FixedPoint(total_chain_length, t.bucket_count - empty_buckets, 100)
        ELSE 0]

\* what a move leaves in the donor: an empty vector and zeroed counters
MovedFrom ==
  [table |-> <<>>, bucket_count |-> 0, element_count |-> 0]

\* EmployeeHashTable(EmployeeHashTable&& other): the new object and other
move_construct(other) ==
  [this |-> [table |-> other.table, bucket_count |-> other.bucket_count,
             element_count |-> other.element_count],
   other |-> MovedFrom]

\* the two tables exchange their contents
move_assign_swap(this, other) ==
  [this |-> [table |-> other.table, bucket_count |-> other.bucket_count,
             element_count |-> other.element_count],
   other |-> [table |-> this.table, bucket_count |-> this.bucket_count,
              element_count |-> this.element_count]]

\* the donor keeps its element_count
move_assign_keeps_count(this, other) ==
  [this |-> [table |-> other.table, bucket_count |-> other.bucket_count,
             element_count |-> other.element_count],
   other |-> [MovedFrom EXCEPT !.element_count = other.element_count]]

\* operator=(EmployeeHashTable&& other) with this != &other
move_assign(this, other) ==
  [this |-> [table |-> other.table, bucket_count |-> other.bucket_count,
             element_count |-> other.element_count],
   other |-> MovedFrom]

(***************************************************************************)
(* Employee::serialize and Employee::deserialize (src/main.cpp 176-231),   *)
(* character by character.  '|' is 124, ',' 44, '.' 46, '+' 43, '-' 45,    *)
(* 'e' 101, '0' 48.                                                        *)
(***************************************************************************)
\* system_clock::period: the clock ticks of one second
TicksPerSecond == 1000000000

\* std::chrono::system_clock::to_time_t and from_time_t
to_time_t(tp) == tp \div TicksPerSecond

from_time_t(t) == t * TicksPerSecond

RECURSIVE Pow10(_)
Pow10(n) == IF n = 0 THEN 1 ELSE 10 * Pow10(n - 1)

RECURSIVE DecimalDigits(_)
DecimalDigits(n) ==
  IF n < 10 THEN <<48 + n>>
  ELSE DecimalDigits(n \div 10) \o <<48 + (n % 10)>>

\* operator<< of an int, a long or a size_t
IntToString(n) ==
  IF n < 0 THEN <<45>> \o DecimalDigits(0 - n) ELSE DecimalDigits(n)

RECURSIVE StripZeros(_)
StripZeros(ds) ==
  IF ds # <<>> /\ ds[Len(ds)] = 48
  THEN StripZeros(SubSeq(ds, 1, Len(ds) - 1)) ELSE ds

\* operator<< of a double on a stream with the default format: %g with 6
\* significant digits.  c is the amount in hundredths; the mantissa is
\* rounded half up (no amount of the model lies half way).
DoubleToString(c) ==
  IF c = 0 THEN <<48>>
  ELSE
    LET a == IF c < 0 THEN 0 - c ELSE c
        n == Len(DecimalDigits(a))
        m0 == IF n <= 6 THEN a * Pow10(6 - n)
              ELSE (a + 5 * Pow10(n - 7)) \div Pow10(n - 6)
        m == IF m0 = 1000000 THEN 100000 ELSE m0
        X == n - 3 + (IF m0 = 1000000 THEN 1 ELSE 0)
        D == DecimalDigits(m)
        body ==
          IF X >= 6
          THEN LET frac == StripZeros(SubSeq(D, 2, 6)) IN
                 <<D[1]>> \o (IF frac = <<>> THEN <<>> ELSE <<46>> \o frac)
                   \o <<101, 43>> \o (IF X < 10 THEN <<48>> ELSE <<>>)
                   \o DecimalDigits(X)
          ELSE IF X >= 0
          THEN LET frac == StripZeros(SubSeq(D, X + 2, 6)) IN
                 SubSeq(D, 1, X + 1)
                   \o (IF frac = <<>> THEN <<>> ELSE <<46>> \o frac)
          ELSE <<48, 46>> \o (IF X = 0 - 2 THEN <<48>> ELSE <<>>)
                 \o StripZeros(D)
    IN (IF c < 0 THEN <<45>> ELSE <<>>) \o body

RECURSIVE JoinSkills(_, _)
JoinSkills(skills, i) ==
  IF i > Len(skills) THEN <<>>
  ELSE skills[i] \o (IF i < Len(skills) THEN <<44>> ELSE <<>>)
         \o JoinSkills(skills, i + 1)

\* Employee::serialize
serialize(emp) ==
  emp.id \o <<124>> \o emp.firstName \o <<124>> \o emp.lastName \o <<124>>
    \o emp.position \o <<124>> \o IntToString(emp.department) \o <<124>>
    \o DoubleToString(emp.salary) \o <<124>> \o emp.email \o <<124>>
    \o emp.phone \o <<124>> \o IntToString(to_time_t(emp.hireDate))
    \o <<124>> \o IntToString(emp.status) \o <<124>> \o emp.managerId
    \o <<124>> \o IntToString(emp.accessLevel) \o <<124>>
    \o JoinSkills(emp.skills, 1)

\* while (std::getline(stream, token, delim)) tokens.push_back(token):
\* nothing is read past a delimiter that ends the string
RECURSIVE getline_tokens(_, _)
getline_tokens(str, delim) ==
  IF str = <<>> THEN <<>>
  ELSE IF \E i \in 1..Len(str) : str[i] = delim
  THEN LET i == CHOOSE i \in 1..Len(str) :
                  str[i] = delim /\ \A j \in 1..(i - 1) : str[j] # delim
       IN <<SubSeq(str, 1, i - 1)>>
            \o getline_tokens(SubSeq(str, i + 1, Len(str)), delim)
  ELSE <<str>>

RECURSIVE SkipSpaces(_)
SkipSpaces(str) ==
  IF str # <<>> /\ str[1] = 32 THEN SkipSpaces(Tail(str)) ELSE str

RECURSIVE LeadingDigits(_)
LeadingDigits(str) ==
  IF str # <<>> /\ str[1] \in Digit
  THEN <<str[1]>> \o LeadingDigits(Tail(str)) ELSE <<>>

RECURSIVE DigitsValue(_)
DigitsValue(ds) ==
  IF ds = <<>> THEN 0
  ELSE 10 * DigitsValue(SubSeq(ds, 1, Len(ds) - 1)) + (ds[Len(ds)] - 48)

\* an optional sign at the head of str: <<sign, rest>>
SignOf(str) ==
  IF str # <<>> /\ str[1] = 45 THEN <<0 - 1, Tail(str)>>
  ELSE IF str # <<>> /\ str[1] = 43 THEN <<1, Tail(str)>>
  ELSE <<1, str>>

\* std::stoi and std::stoll: blanks, a sign, digits; what follows the
\* digits is ignored; ok is FALSE when std::invalid_argument is thrown
stoi(str) ==
  LET sg == SignOf(SkipSpaces(str))
      ds == LeadingDigits(sg[2])
  IN [ok |-> ds # <<>>, value |-> sg[1] * DigitsValue(ds)]

\* std::stod, the amount in hundredths: blanks, a sign, digits with an
\* optional point, an optional exponent; ok is FALSE when
\* std::invalid_argument is thrown
stod(str) ==
  LET sg == SignOf(SkipSpaces(str))
      ip == LeadingDigits(sg[2])
      r1 == SubSeq(sg[2], Len(ip) + 1, Len(sg[2]))
      fp == IF r1 # <<>> /\ r1[1] = 46 THEN LeadingDigits(Tail(r1)) ELSE <<>>
      r2 == IF r1 # <<>> /\ r1[1] = 46
            THEN SubSeq(r1, Len(fp) + 2, Len(r1)) ELSE r1
      es == IF r2 # <<>> /\ r2[1] \in {101, 69}
            THEN SignOf(Tail(r2)) ELSE <<1, <<>> >>
      ed == LeadingDigits(es[2])
      shift == es[1] * DigitsValue(ed) - Len(fp) + 2
      mant == DigitsValue(ip \o fp)
  IN [ok |-> ip \o fp # <<>>,
      value |-> sg[1] * (IF shift >= 0 THEN mant * Pow10(shift)
                         ELSE mant \div Pow10(0 - shift))]

\* Employee::deserialize: the record, or the exception thrown
deserialize(data) ==
  LET tokens == getline_tokens(data, 124) IN
    IF Len(tokens) < 12
    THEN [ret |-> "EmployeeException", emp |-> Employee]
    ELSE IF \/ ~stoi(tokens[5]).ok \/ ~stod(tokens[6]).ok
            \/ ~stoi(tokens[9]).ok \/ ~stoi(tokens[10]).ok
            \/ ~stoi(tokens[12]).ok
    THEN [ret |-> "std::invalid_argument", emp |-> Employee]
    ELSE [ret |-> "ok",
          emp |-> [id |-> tokens[1], firstName |-> tokens[2],
                   lastName |-> tokens[3], position |-> tokens[4],
                   department |-> stoi(tokens[5]).value,
                   salary |-> stod(tokens[6]).value,
                   email |-> tokens[7], phone |-> tokens[8],
                   hireDate |-> from_time_t(stoi(tokens[9]).value),
                   status |-> stoi(tokens[10]).value,
                   managerId |-> tokens[11],
                   accessLevel |-> stoi(tokens[12]).value,
                   skills |-> IF Len(tokens) > 12 /\ tokens[13] # <<>>
                              THEN getline_tokens(tokens[13], 44)
                              ELSE <<>>]]

(***************************************************************************)
(* DataManager (src/main.cpp 591-674).  A file is the sequence of its      *)
(* lines; fs maps the names of the files that exist to their contents.     *)
(***************************************************************************)
\* DataManager(): data_file and backup_file
DataManager ==
  [data_file |-> "employees.dat", backup_file |-> "employees.dat.bak"]

\* DataManager::save: the files after the call, which returns true
save(manager, fs, table) ==
  LET employees == get_all(table)
      had == manager.data_file \in DOMAIN fs
      names == DOMAIN fs \cup {manager.data_file}
                 \cup (IF had THEN {manager.backup_file} ELSE {})
  IN [f \in names |->
        IF f = manager.data_file
        THEN <<IntToString(Len(employees))>>
               \o [i \in 1..Len(employees) |-> serialize(employees[i])]
        ELSE IF f = manager.backup_file /\ had THEN fs[manager.data_file]
        ELSE fs[f]]

\* the loop of DataManager::load from line i on: the table, the value
\* returned and the number of records loaded
RECURSIVE load_lines(_, _, _, _)
load_lines(lines, i, t, loaded) ==
  IF i > Len(lines) \/ lines[i] = <<>>
  THEN [t |-> t, ret |-> TRUE, loaded |-> loaded]
  ELSE LET d == deserialize(lines[i]) IN
    IF d.ret = "EmployeeException"
    THEN load_lines(lines, i + 1, t, loaded)
    ELSE IF d.ret # "ok"
    THEN [t |-> t, ret |-> FALSE, loaded |-> loaded]
    ELSE LET r == insert(t, d.emp) IN
      IF r.ret = "throw"
      THEN load_lines(lines, i + 1, t, loaded)
      ELSE load_lines(lines, i + 1, r.t,
                      IF r.ret = "true" THEN loaded + 1 ELSE loaded)

\* file >> count skips the blank lines before the count
RECURSIVE SkipBlankLines(_)
SkipBlankLines(lines) ==
  IF lines # <<>> /\ SkipSpaces(lines[1]) = <<>>
  THEN SkipBlankLines(Tail(lines)) ELSE lines

\* DataManager::load into table
load(manager, fs, table) ==
  IF manager.data_file \notin DOMAIN fs
  THEN [t |-> table, ret |-> TRUE, loaded |-> 0]
  ELSE
    LET lines == SkipBlankLines(fs[manager.data_file])
        first == IF lines = <<>> THEN <<>> ELSE SkipSpaces(lines[1])
        count == LeadingDigits(first)
        rest == SubSeq(first, Len(count) + 1, Len(first))
    IN IF count = <<>>
       THEN [t |-> table, ret |-> TRUE, loaded |-> 0]
       ELSE load_lines(IF rest = <<>> THEN Tail(lines)
                       ELSE <<Tail(rest)>> \o Tail(lines),
                       1, table, 0)

(***************************************************************************)
(* State: the table objects alive, by name; the last call made, with its   *)
(* arguments and what it returned; whether the process has been killed;    *)
(* the files on disk, by name, each a sequence of lines; the state of the  *)
(* command-line program; the threads that call the tables, and the holder  *)
(* of the table_mutex of every table object.                               *)
(***************************************************************************)
VARIABLES tables, last, crashed, files, cli, threads, mutex

vars == <<tables, last, crashed, files, cli, threads, mutex>>

\* what the calls of one thread on the tables leave alone
env == <<files, cli, threads, mutex>>

\* no file, no command-line program, no second thread
EnvInit ==
  /\ files = [f \in {} |-> <<>>]
  /\ cli = [phase |-> "none"]
  /\ threads = [t \in {} |-> <<>>]
  /\ mutex = [o \in {} |-> 0]

Call(op, obj, id, emp, ret, rehashed) ==
  [op |-> op, obj |-> obj, id |-> id, emp |-> emp, ret |-> ret,
   rehashed |-> rehashed, criteria |-> SearchCriteria, results |-> <<>>]

Alive(o) == ~crashed /\ o \in DOMAIN tables

\* insert(emp) on object o
InsertCall(o, emp) ==
  /\ Alive(o)
  /\ validate(emp) # "ok" \/ tables[o].bucket_count > 0
  /\ LET r == insert(tables[o], emp) IN
       /\ tables' = [tables EXCEPT ![o] = r.t]
       /\ last' = Call("insert", o, emp.id, emp, r.ret, r.rehashed)
  /\ UNCHANGED <<crashed, env>>

\* insert(emp), called while the table holds fewer than max nodes
Insert(o, emp, max) ==
  /\ Alive(o)
  /\ tables[o].element_count < max
  /\ InsertCall(o, emp)

Remove(o, id) ==
  /\ Alive(o)
  /\ tables[o].bucket_count > 0
  /\ LET r == remove(tables[o], id) IN
       /\ tables' = [tables EXCEPT ![o] = r.t]
       /\ last' = Call("remove", o, id, Employee, r.ret, FALSE)
  /\ UNCHANGED <<crashed, env>>

Find(o, id) ==
  /\ Alive(o)
  /\ tables[o].bucket_count > 0
  /\ last' = Call("find", o, id, Employee,
                  IF find(tables[o], id) = <<>> THEN "nullptr" ELSE "found",
                  FALSE)
  /\ UNCHANGED <<tables, crashed, env>>

Update(o, id, updated_emp) ==
  /\ Alive(o)
  /\ tables[o].bucket_count > 0
  /\ LET r == update(tables[o], id, updated_emp) IN
       /\ tables' = [tables EXCEPT ![o] = r.t]
       /\ last' = Call("update", o, id, updated_emp, r.ret, FALSE)
  /\ UNCHANGED <<crashed, env>>

\* search(criteria) on object o; the call returns copies of the records
Search(o, criteria) ==
  /\ Alive(o)
  /\ last' = [Call("search", o, <<>>, Employee, "none", FALSE)
                EXCEPT !.criteria = criteria,
                       !.results = search(tables[o], criteria)]
  /\ UNCHANGED <<tables, crashed, env>>

GetAll(o) ==
  /\ Alive(o)
  /\ last' = [Call("get_all", o, <<>>, Employee, "none", FALSE)
                EXCEPT !.results = get_all(tables[o])]
  /\ UNCHANGED <<tables, crashed, env>>

GetStatistics(o) ==
  /\ Alive(o)
  /\ last' = [Call("get_statistics", o, <<>>, Employee, "none", FALSE)
                EXCEPT !.results = <<get_statistics(tables[o])>>]
  /\ UNCHANGED <<tables, crashed, env>>

\* DataManager().load(o)
Load(o) ==
  /\ Alive(o)
  /\ tables[o].bucket_count > 0
  /\ LET r == load(DataManager, files, tables[o]) IN
       /\ tables' = [tables EXCEPT ![o] = r.t]
       /\ last' = Call("load", o, <<>>, Employee,
                       IF r.ret THEN "true" ELSE "false", FALSE)
  /\ UNCHANGED <<crashed, env>>

\* the record main builds for the default admin user at time now: "XX0069",
\* "System", "Admin", "Chief Executive Officer", 9999999.99,
\* "admin@example.com", "+1234567890"
DefaultAdmin(now) ==
  [Employee EXCEPT
     !.id = <<88,88,48,48,54,57>>,
     !.firstName = <<83,121,115,116,101,109>>,
     !.lastName = <<65,100,109,105,110>>,
     !.position = <<67,104,105,101,102,32,69,120,101,99,117,116,105,118,
                    101,32,79,102,102,105,99,101,114>>,
     !.department = ENGINEERING,
     !.salary = 999999999,
     !.email = <<97,100,109,105,110,64,101,120,97,109,112,108,101,46,99,
                 111,109>>,
     !.phone = <<43,49,50,51,52,53,54,55,56,57,48>>,
     !.hireDate = now,
     !.accessLevel = ADMIN]

\* main up to cli.run(): EmployeeHashTable employee_db(101), the default
\* admin when size() is 0, then AdvancedCLI's constructor, which loads the
\* data file; the result of that load
main_setup(fs, now) ==
  LET employee_db == EmployeeHashTable(101)
      with_admin ==
        IF size(employee_db) = 0
        THEN IF validate(DefaultAdmin(now)) = "ok"
             THEN insert(employee_db, DefaultAdmin(now)).t
             ELSE employee_db
        ELSE employee_db
  IN load(DataManager, fs, with_admin)

\* the program is started at time now
Start(now) ==
  /\ ~crashed
  /\ cli.phase = "stopped"
  /\ LET r == main_setup(files, now) IN
       /\ tables' = [o \in {"db"} |-> r.t]
       /\ last' = Call("start", "db", <<>>, DefaultAdmin(now),
                       IF r.ret THEN "true" ELSE "false", FALSE)
  /\ cli' = [cli EXCEPT !.phase = "running"]
  /\ UNCHANGED <<crashed, files, threads, mutex>>

\* option Exit of the main menu: data_manager.save(db), return from run,
\* then ~AdvancedCLI saves once more and the table and currentUser are
\* destroyed
Exit ==
  /\ cli.phase = "running"
  /\ Alive("db")
  /\ files' = save(DataManager, save(DataManager, files, tables["db"]),
                   tables["db"])
  /\ tables' = [o \in {} |-> <<>>]
  /\ last' = [Call("exit", "db", <<>>, Employee, "true", FALSE)
                EXCEPT !.results = get_all(tables["db"])]
  /\ cli' = [f \in DOMAIN cli |-> IF f = "phase" THEN "stopped" ELSE <<>>]
  /\ UNCHANGED <<crashed, threads, mutex>>

\* update_employee of the menu, with a new first name typed in and every
\* other prompt left empty
UpdateEmployee(id, firstName) ==
  /\ cli.phase = "running"
  /\ Alive("db")
  /\ tables["db"].bucket_count > 0
  /\ LET emp == find(tables["db"], id) IN
       IF emp = <<>>
       THEN /\ last' = Call("update_employee", "db", id, Employee,
                            "not found", FALSE)
            /\ UNCHANGED tables
       ELSE LET updated == [emp[1] EXCEPT !.firstName = firstName]
                r == update(tables["db"], id, updated)
            IN /\ tables' = [tables EXCEPT !["db"] = r.t]
               /\ last' = Call("update_employee", "db", id, updated, r.ret,
                               FALSE)
  /\ UNCHANGED <<crashed, env>>

\* an operation that hashes a key on a moved-from object computes
\* hash_value % 0: the process is killed
Crash(o) ==
  /\ Alive(o)
  /\ tables[o].bucket_count = 0
  /\ crashed' = TRUE
  /\ last' = Call("crash", o, <<>>, Employee, "none", FALSE)
  /\ UNCHANGED <<tables, env>>

\* EmployeeHashTable o(initial_bucket_count)
Construct(o, initial_bucket_count) ==
  /\ ~crashed
  /\ o \notin DOMAIN tables
  /\ tables' = [x \in DOMAIN tables \cup {o} |->
                  IF x = o THEN EmployeeHashTable(initial_bucket_count)
                  ELSE tables[x]]
  /\ last' = Call("construct", o, <<>>, Employee, "none", FALSE)
  /\ UNCHANGED <<crashed, env>>

\* ~EmployeeHashTable on o
Destroy(o) ==
  /\ Alive(o)
  /\ tables' = [x \in DOMAIN tables \ {o} |-> tables[x]]
  /\ last' = Call("destroy", o, <<>>, Employee, "none", FALSE)
  /\ UNCHANGED <<crashed, env>>

\* EmployeeHashTable dst(std::move(src))
MoveConstruct(dst, src) ==
  /\ Alive(src)
  /\ dst \notin DOMAIN tables
  /\ LET r == move_construct(tables[src]) IN
       tables' = [x \in DOMAIN tables \cup {dst} |->
                    IF x = dst THEN r.this
                    ELSE IF x = src THEN r.other ELSE tables[x]]
  /\ last' = Call("move_construct", dst, <<>>, Employee, src, FALSE)
  /\ UNCHANGED <<crashed, env>>

\* dst = std::move(src)
MoveAssign(dst, src) ==
  /\ Alive(src)
  /\ Alive(dst)
  /\ IF dst = src
     THEN UNCHANGED tables
     ELSE LET r == move_assign(tables[dst], tables[src]) IN
            tables' = [tables EXCEPT ![dst] = r.this, ![src] = r.other]
  /\ last' = Call("move_assign", dst, <<>>, Employee, src, FALSE)
  /\ UNCHANGED <<crashed, env>>

(***************************************************************************)
(* Threads.  threads[t] is what thread t is doing: pc is "idle" between    *)
(* two calls and names the statement the thread is at otherwise; obj is    *)
(* the table object of the call and other the donor of a move; old_table   *)
(* holds the nodes rehash still has to put back; seen is what an unlocked  *)
(* read has read so far, ret what the last call returned, and stale tells  *)
(* whether the call read a table that another thread was rehashing or      *)
(* moving.  mutex[o] is the thread that holds the table_mutex of o, 0 when *)
(* none does.                                                              *)
(***************************************************************************)
IdleThread ==
  [pc |-> "idle", op |-> "none", obj |-> "none", other |-> "none",
   id |-> <<>>, emp |-> Employee, old_table |-> <<>>, first |-> "none",
   seen |-> <<>>, ret |-> "none", stale |-> FALSE, calls |-> 0]

\* thread t after its call has returned: the arguments and the locals of
\* the call are gone, what is left is which call it was, what it returned
\* and whether it read a table another thread was changing
Returned(t) ==
  [IdleThread EXCEPT !.op = threads[t].op, !.ret = threads[t].ret,
                     !.stale = threads[t].stale,
                     !.calls = threads[t].calls]

\* the number of calls the threads have made
RECURSIVE CallsOf(_)
CallsOf(S) ==
  IF S = {} THEN 0
  ELSE LET t == CHOOSE u \in S : TRUE
       IN threads[t].calls + CallsOf(S \ {t})

CallsMade == CallsOf(DOMAIN threads)

\* a thread is inside rehash on o, past line 299 and before the end of
\* the loop of line 307
RehashInProgress(o) ==
  \E u \in DOMAIN threads :
    threads[u].obj = o /\ threads[u].pc \in {"rehash_clear", "rehash_reinsert"}

\* a thread is inside the move assignment of or from o, past line 367 and
\* before line 373
TransferInProgress(o) ==
  \E u \in DOMAIN threads :
    /\ threads[u].pc \in {"transfer_counts", "transfer_reset"}
    /\ o \in {threads[u].obj, threads[u].other}

Intermediate(o) == RehashInProgress(o) \/ TransferInProgress(o)

\* std::lock_guard<std::mutex> lock(table_mutex), the first statement of
\* insert, remove, find, update, search and size
LockGuard(t, op, o, id, emp) ==
  /\ ~crashed
  /\ threads[t].pc = "idle"
  /\ CallsMade < MaxCalls
  /\ o \in DOMAIN tables
  /\ mutex[o] = 0
  /\ mutex' = [mutex EXCEPT ![o] = t]
  /\ threads' = [threads EXCEPT ![t] =
                   [IdleThread EXCEPT !.pc = op, !.op = op, !.obj = o,
                                      !.id = id, !.emp = emp,
                                      !.calls = threads[t].calls + 1]]
  /\ UNCHANGED <<tables, last, crashed, files, cli>>

\* thread t calls op on o and arrives at the lock_guard of its first line
Enter(t, op, o, id, emp) ==
  /\ ~crashed
  /\ threads[t].pc = "idle"
  /\ CallsMade < MaxCalls
  /\ o \in DOMAIN tables
  /\ threads' = [threads EXCEPT ![t] =
                   [IdleThread EXCEPT !.pc = "lock_guard", !.op = op,
                                      !.obj = o, !.id = id, !.emp = emp,
                                      !.calls = threads[t].calls + 1]]
  /\ UNCHANGED <<tables, last, crashed, files, cli, mutex>>

\* the constructor of the lock_guard returns: table_mutex.lock() has got
\* the mutex
Acquire(t) ==
  /\ ~crashed
  /\ threads[t].pc = "lock_guard"
  /\ mutex[threads[t].obj] = 0
  /\ mutex' = [mutex EXCEPT ![threads[t].obj] = t]
  /\ threads' = [threads EXCEPT ![t].pc = threads[t].op]
  /\ UNCHANGED <<tables, last, crashed, files, cli>>

\* insert, lines 384-397, with the lock held
InsertLocked(t) ==
  /\ ~crashed
  /\ threads[t].pc = "insert"
  /\ LET o == threads[t].obj
         emp == threads[t].emp
     IN IF validate(emp) # "ok"
        THEN /\ threads' = [threads EXCEPT ![t].pc = "unlock",
                                           ![t].ret = "throw"]
             /\ UNCHANGED tables
        ELSE /\ tables[o].bucket_count > 0
             /\ LET r == insert_internal(tables[o], emp) IN
                  /\ tables' = [tables EXCEPT ![o] = r.t]
                  /\ threads' =
                       [threads EXCEPT
                          ![t].pc = IF r.ret /\ load_factor_exceeds(r.t)
                                    THEN "rehash" ELSE "unlock",
                          ![t].ret = IF r.ret THEN "true" ELSE "false",
                          ![t].stale = Intermediate(o)]
  /\ UNCHANGED <<last, crashed, files, cli, mutex>>

\* rehash, lines 298-299
RehashBegin(t) ==
  /\ ~crashed
  /\ threads[t].pc = "rehash"
  /\ tables' = [tables EXCEPT ![threads[t].obj].bucket_count =
                                 next_prime(@ * 2)]
  /\ threads' = [threads EXCEPT ![t].pc = "rehash_clear"]
  /\ UNCHANGED <<last, crashed, files, cli, mutex>>

\* rehash, lines 301-304
RehashClear(t) ==
  /\ ~crashed
  /\ threads[t].pc = "rehash_clear"
  /\ LET o == threads[t].obj IN
       /\ tables' = [tables EXCEPT ![o] = EmptyTable(tables[o].bucket_count)]
       /\ threads' = [threads EXCEPT
                        ![t].pc = "rehash_reinsert",
                        ![t].old_table = Nodes(tables[o].table, 1)]
  /\ UNCHANGED <<last, crashed, files, cli, mutex>>

\* rehash, line 311: one node is put back
RehashReinsert(t) ==
  /\ ~crashed
  /\ threads[t].pc = "rehash_reinsert"
  /\ LET o == threads[t].obj
         nodes == threads[t].old_table
     IN /\ tables' = [tables EXCEPT
                        ![o] = insert_internal(tables[o], Head(nodes)).t]
        /\ threads' = [threads EXCEPT
                         ![t].pc = IF Tail(nodes) = <<>> THEN "unlock"
                                   ELSE "rehash_reinsert",
                         ![t].old_table = Tail(nodes)]
  /\ UNCHANGED <<last, crashed, files, cli, mutex>>

\* remove, lines 410-430, with the lock held
RemoveLocked(t) ==
  /\ ~crashed
  /\ threads[t].pc = "remove"
  /\ LET o == threads[t].obj IN
       /\ tables[o].bucket_count > 0
       /\ LET r == remove(tables[o], threads[t].id) IN
            /\ tables' = [tables EXCEPT ![o] = r.t]
            /\ threads' = [threads EXCEPT ![t].pc = "unlock",
                                          ![t].ret = r.ret,
                                          ![t].stale = Intermediate(o)]
  /\ UNCHANGED <<last, crashed, files, cli, mutex>>

\* find, lines 436-446, with the lock held
FindLocked(t) ==
  /\ ~crashed
  /\ threads[t].pc = "find"
  /\ LET o == threads[t].obj IN
       /\ tables[o].bucket_count > 0
       /\ threads' = [threads EXCEPT
                        ![t].pc = "unlock",
                        ![t].seen = find(tables[o], threads[t].id),
                        ![t].ret = IF find(tables[o], threads[t].id) = <<>>
                                   THEN "nullptr" ELSE "found",
                        ![t].stale = Intermediate(o)]
  /\ UNCHANGED <<tables, last, crashed, files, cli, mutex>>

\* update, lines 452-471, with the lock held
UpdateLocked(t) ==
  /\ ~crashed
  /\ threads[t].pc = "update"
  /\ LET o == threads[t].obj IN
       /\ tables[o].bucket_count > 0
       /\ LET r == update(tables[o], threads[t].id, threads[t].emp) IN
            /\ tables' = [tables EXCEPT ![o] = r.t]
            /\ threads' = [threads EXCEPT ![t].pc = "unlock",
                                          ![t].ret = r.ret,
                                          ![t].stale = Intermediate(o)]
  /\ UNCHANGED <<last, crashed, files, cli, mutex>>

\* search with no criterion, lines 476-535, with the lock held
SearchLocked(t) ==
  /\ ~crashed
  /\ threads[t].pc = "search"
  /\ LET o == threads[t].obj IN
       threads' = [threads EXCEPT
                     ![t].pc = "unlock",
                     ![t].seen = search(tables[o], SearchCriteria),
                     ![t].stale = Intermediate(o)]
  /\ UNCHANGED <<tables, last, crashed, files, cli, mutex>>

\* size, line 549, with the lock held
SizeLocked(t) ==
  /\ ~crashed
  /\ threads[t].pc = "size"
  /\ LET o == threads[t].obj IN
       threads' = [threads EXCEPT
                     ![t].pc = "unlock",
                     ![t].seen = <<size(tables[o])>>,
                     ![t].stale = Intermediate(o)]
  /\ UNCHANGED <<tables, last, crashed, files, cli, mutex>>

\* a call that hashes a key on a moved-from object computes
\* hash_value % 0: the process is killed
ThreadCrash(t) ==
  /\ ~crashed
  /\ \/ threads[t].pc \in {"remove", "find", "update"}
     \/ threads[t].pc = "insert" /\ validate(threads[t].emp) = "ok"
  /\ tables[threads[t].obj].bucket_count = 0
  /\ crashed' = TRUE
  /\ UNCHANGED <<tables, last, files, cli, threads, mutex>>

\* the lock_guard is destroyed: on return and when validate has thrown
Unlock(t) ==
  /\ ~crashed
  /\ threads[t].pc = "unlock"
  /\ mutex' = [mutex EXCEPT ![threads[t].obj] = 0]
  /\ threads' = [threads EXCEPT ![t] = Returned(t)]
  /\ UNCHANGED <<tables, last, crashed, files, cli>>

\* load_factor(), line 544: no lock is taken; the first of the two data
\* members it reads, in either order
LoadFactorFirst(t, o, member) ==
  /\ ~crashed
  /\ threads[t].pc = "idle"
  /\ CallsMade < MaxCalls
  /\ o \in DOMAIN tables
  /\ threads' = [threads EXCEPT ![t] =
                   [IdleThread EXCEPT
                      !.pc = "load_factor", !.op = "load_factor", !.obj = o,
                      !.first = member,
                      !.seen = <<IF member = "element_count"
                                 THEN tables[o].element_count
                                 ELSE tables[o].bucket_count>>,
                      !.stale = Intermediate(o),
                      !.calls = threads[t].calls + 1]]
  /\ UNCHANGED <<tables, last, crashed, files, cli, mutex>>

\* load_factor(), line 544: the other data member is read and the call
\* returns <<element_count, bucket_count>> for their quotient
LoadFactorSecond(t) ==
  /\ ~crashed
  /\ threads[t].pc = "load_factor"
  /\ LET o == threads[t].obj IN
       threads' = [threads EXCEPT
                     ![t].pc = "idle",
                     ![t].seen =
                       IF threads[t].first = "element_count"
                       THEN <<threads[t].seen[1], tables[o].bucket_count>>
                       ELSE <<tables[o].element_count, threads[t].seen[1]>>,
                     ![t].stale = threads[t].stale \/ Intermediate(o)]
  /\ UNCHANGED <<tables, last, crashed, files, cli, mutex>>

\* dst = std::move(src) with dst and src two objects, line 362
MoveAssignCall(t, dst, src) ==
  /\ ~crashed
  /\ threads[t].pc = "idle"
  /\ CallsMade < MaxCalls
  /\ dst \in DOMAIN tables /\ src \in DOMAIN tables /\ dst # src
  /\ threads' = [threads EXCEPT ![t] =
                   [IdleThread EXCEPT
                      !.pc = "std_lock", !.op = "move_assign", !.obj = dst,
                      !.other = src, !.first = dst,
                      !.calls = threads[t].calls + 1]]
  /\ UNCHANGED <<tables, last, crashed, files, cli, mutex>>

\* std::lock, line 363: lock() on the mutex it starts with
StdLockFirst(t) ==
  /\ ~crashed
  /\ threads[t].pc = "std_lock"
  /\ mutex[threads[t].first] = 0
  /\ mutex' = [mutex EXCEPT ![threads[t].first] = t]
  /\ threads' = [threads EXCEPT ![t].pc = "std_lock_try"]
  /\ UNCHANGED <<tables, last, crashed, files, cli>>

\* the second mutex is waited for with the first one held
StdLockTry_blocking(t) ==
  /\ ~crashed
  /\ threads[t].pc = "std_lock_try"
  /\ LET second == IF threads[t].first = threads[t].obj
                   THEN threads[t].other ELSE threads[t].obj
     IN /\ mutex[second] = 0
        /\ mutex' = [mutex EXCEPT ![second] = t]
        /\ threads' = [threads EXCEPT ![t].pc = "transfer"]
  /\ UNCHANGED <<tables, last, crashed, files, cli>>

\* std::lock, line 363: try_lock() on the other mutex; when it fails the
\* first mutex is unlocked and std::lock starts again with the other one
StdLockTry(t) ==
  /\ ~crashed
  /\ threads[t].pc = "std_lock_try"
  /\ LET second == IF threads[t].first = threads[t].obj
                   THEN threads[t].other ELSE threads[t].obj
     IN IF mutex[second] = 0
        THEN /\ mutex' = [mutex EXCEPT ![second] = t]
             /\ threads' = [threads EXCEPT ![t].pc = "transfer"]
        ELSE /\ mutex' = [mutex EXCEPT ![threads[t].first] = 0]
             /\ threads' = [threads EXCEPT ![t].pc = "std_lock",
                                           ![t].first = second]
  /\ UNCHANGED <<tables, last, crashed, files, cli>>

\* move assignment, line 367: table = std::move(other.table)
Transfer(t) ==
  /\ ~crashed
  /\ threads[t].pc = "transfer"
  /\ LET dst == threads[t].obj
         src == threads[t].other
     IN tables' = [tables EXCEPT ![dst].table = tables[src].table,
                                 ![src].table = <<>>]
  /\ threads' = [threads EXCEPT ![t].pc = "transfer_counts"]
  /\ UNCHANGED <<last, crashed, files, cli, mutex>>

\* move assignment, lines 368-369
TransferCounts(t) ==
  /\ ~crashed
  /\ threads[t].pc = "transfer_counts"
  /\ LET dst == threads[t].obj
         src == threads[t].other
     IN tables' = [tables EXCEPT
                     ![dst].bucket_count = tables[src].bucket_count,
                     ![dst].element_count = tables[src].element_count]
  /\ threads' = [threads EXCEPT ![t].pc = "transfer_reset"]
  /\ UNCHANGED <<last, crashed, files, cli, mutex>>

\* move assignment, lines 371-372
TransferReset(t) ==
  /\ ~crashed
  /\ threads[t].pc = "transfer_reset"
  /\ tables' = [tables EXCEPT ![threads[t].other].bucket_count = 0,
                              ![threads[t].other].element_count = 0]
  /\ threads' = [threads EXCEPT ![t].pc = "unlock_both"]
  /\ UNCHANGED <<last, crashed, files, cli, mutex>>

\* the two lock_guards of lines 364-365 are destroyed
UnlockBoth(t) ==
  /\ ~crashed
  /\ threads[t].pc = "unlock_both"
  /\ mutex' = [mutex EXCEPT ![threads[t].obj] = 0, ![threads[t].other] = 0]
  /\ threads' = [threads EXCEPT ![t] = Returned(t)]
  /\ UNCHANGED <<tables, last, crashed, files, cli>>

\* what thread t does next inside insert, remove, find or search
LockedStep(t) ==
  \/ InsertLocked(t)
  \/ RehashBegin(t)
  \/ RehashClear(t)
  \/ RehashReinsert(t)
  \/ RemoveLocked(t)
  \/ FindLocked(t)
  \/ SearchLocked(t)
  \/ Unlock(t)

\* what thread t does next inside a move assignment
MoveStep(t) ==
  \/ StdLockFirst(t)
  \/ StdLockTry(t)
  \/ Transfer(t)
  \/ TransferCounts(t)
  \/ TransferReset(t)
  \/ UnlockBoth(t)

\* what thread t does next inside the call it is in
ThreadStep(t) == LockedStep(t) \/ MoveStep(t) \/ ThreadCrash(t)

(***************************************************************************)
(* The table of the command-line program and the calls made on it.         *)
(***************************************************************************)
Inputs == ValidInputs(Keys) \cup InvalidInputs(3)

Init ==
  /\ \E n \in 0..MaxInitialBuckets :
       tables = [o \in {"db"} |-> EmployeeHashTable(n)]
  /\ last = Call("construct", "db", <<>>, Employee, "none", FALSE)
  /\ crashed = FALSE
  /\ EnvInit

Next ==
  \/ \E emp \in Inputs : Insert("db", emp, MaxElements)
  \/ \E id \in Keys : Remove("db", id)
  \/ \E id \in Keys : Find("db", id)
  \/ \E id \in Keys, emp \in Inputs : Update("db", id, emp)

Spec == Init /\ [][Next]_vars

(***************************************************************************)
(* The table of the program, a temporary table and whole-table moves       *)
(* between them, as in load_backup and data_management.                    *)
(***************************************************************************)
Objects == {"db", "temp_db"}

MoveKeys == {KeyPool[1], KeyPool[2]}

MoveInputs == {ValidEmployee(id, 1) : id \in MoveKeys} \cup InvalidInputs(1)

NextMove ==
  \/ \E o \in Objects, emp \in MoveInputs : Insert(o, emp, MaxMoveElements)
  \/ \E o \in Objects, id \in MoveKeys : Remove(o, id)
  \/ \E o \in Objects, id \in MoveKeys : Find(o, id)
  \/ \E o \in Objects, id \in MoveKeys, emp \in MoveInputs : Update(o, id, emp)
  \/ \E o \in Objects : Crash(o)
  \/ \E n \in 0..MaxInitialBuckets : Construct("temp_db", n)
  \/ Destroy("temp_db")
  \/ \E src \in Objects : MoveConstruct("temp_db", src)
  \/ \E dst \in Objects, src \in Objects : MoveAssign(dst, src)

SpecMove == Init /\ [][NextMove]_vars

(***************************************************************************)
(* One table whose keys share a bucket: the first and the third id of      *)
(* KeyPool hash to the same bucket of a table of 2 and of 3 buckets.       *)
(***************************************************************************)
ChainKeys == {KeyPool[1], KeyPool[3]}

ChainInputs == {ValidEmployee(id, 1) : id \in ChainKeys} \cup InvalidInputs(1)

NextChain ==
  \/ \E emp \in ChainInputs : Insert("db", emp, MaxElements)
  \/ \E id \in ChainKeys : Remove("db", id)
  \/ \E id \in ChainKeys : Find("db", id)
  \/ \E id \in ChainKeys, emp \in ChainInputs : Update("db", id, emp)

SpecChain == Init /\ [][NextChain]_vars

(***************************************************************************)
(* Tables with empty buckets, chains of one and two nodes and a moved-from *)
(* table, and the statistics of each.                                      *)
(***************************************************************************)
StatsKeys == {KeyPool[1], KeyPool[2], KeyPool[5]}

NextStats ==
  \/ \E o \in Objects, id \in StatsKeys :
       Insert(o, ValidEmployee(id, 1), MaxElements)
  \/ \E o \in Objects, id \in StatsKeys : Remove(o, id)
  \/ \E o \in Objects : Crash(o)
  \/ \E n \in 0..MaxInitialBuckets : Construct("temp_db", n)
  \/ \E dst \in Objects, src \in Objects : MoveAssign(dst, src)
  \/ \E o \in Objects : GetStatistics(o)

SpecStats == Init /\ [][NextStats]_vars

(***************************************************************************)
(* One table, records that differ in every field search looks at, and      *)
(* searches with each criterion set and not set.                           *)
(***************************************************************************)
SearchKeys == {KeyPool[1], KeyPool[2]}

\* "Go"
SearchInputs ==
  ValidInputs(SearchKeys)
    \cup {[ValidEmployee(KeyPool[1], 2) EXCEPT
             !.status = 1, !.salary = 1500 * CentsPerUnit,
             !.skills = << <<71,111>>, <<67,43,43>> >>]}

\* "an", "AN", "An", "nn", "ee", "engine", "c+", "C+", "b", "+", ""
Criteria ==
  {SearchCriteria,
   [SearchCriteria EXCEPT !.id = <<KeyPool[1]>>],
   [SearchCriteria EXCEPT !.firstName = << <<97,110>> >>],
   [SearchCriteria EXCEPT !.firstName = << <<65,78>> >>],
   [SearchCriteria EXCEPT !.firstName = << <<65,78>> >>,
                          !.caseSensitive = TRUE],
   [SearchCriteria EXCEPT !.firstName = << <<65,110>> >>,
                          !.caseSensitive = TRUE],
   [SearchCriteria EXCEPT !.firstName = << <<110,110>> >>],
   [SearchCriteria EXCEPT !.lastName = << <<101,101>> >>],
   [SearchCriteria EXCEPT !.position = << <<101,110,103,105,110,101>> >>],
   [SearchCriteria EXCEPT !.position = << <<101,110,103,105,110,101>> >>,
                          !.caseSensitive = TRUE],
   [SearchCriteria EXCEPT !.department = <<1>>],
   [SearchCriteria EXCEPT !.minSalary = <<2000 * CentsPerUnit>>],
   [SearchCriteria EXCEPT !.maxSalary = <<1000 * CentsPerUnit>>],
   [SearchCriteria EXCEPT !.minSalary = <<1000 * CentsPerUnit + 1>>,
                          !.maxSalary = <<1500 * CentsPerUnit - 1>>],
   [SearchCriteria EXCEPT !.status = <<1>>],
   [SearchCriteria EXCEPT !.skill = << <<99,43>> >>],
   [SearchCriteria EXCEPT !.skill = << <<99,43>> >>, !.caseSensitive = TRUE],
   [SearchCriteria EXCEPT !.skill = << <<67,43>> >>, !.caseSensitive = TRUE],
   [SearchCriteria EXCEPT !.firstName = << <<98>> >>, !.department = <<1>>,
                          !.minSalary = <<1000 * CentsPerUnit>>, !.skill = << <<43>> >>],
   [SearchCriteria EXCEPT !.firstName = << <<>> >>]}

NextSearch ==
  \/ \E emp \in SearchInputs : Insert("db", emp, MaxMoveElements)
  \/ \E id \in SearchKeys : Remove("db", id)
  \/ \E id \in SearchKeys, emp \in SearchInputs : Update("db", id, emp)
  \/ \E criteria \in Criteria : Search("db", criteria)
  \/ GetAll("db")

SpecSearch == Init /\ [][NextSearch]_vars

(***************************************************************************)
(* A data file with any lines, loaded into a table built with the default  *)
(* bucket count, as load_backup and the reload of data_management do.      *)
(***************************************************************************)
RECURSIVE JoinTokens(_, _)
JoinTokens(tokens, i) ==
  IF i > Len(tokens) THEN <<>>
  ELSE tokens[i] \o <<124>> \o JoinTokens(tokens, i + 1)

\* the line of the third id with "x" as its k-th field
LineWithField(k) ==
  JoinTokens([getline_tokens(serialize(ValidEmployee(KeyPool[3], 1)), 124)
                EXCEPT ![k] = <<120>>], 1)

\* lines of well-formed records, two of them with the same id; a line with
\* two fields only, "AB1234|Ann"; lines whose department, salary, date,
\* status or access level is not a number; a line whose last name fails
\* validate; an empty line
LinePool ==
  {serialize(ValidEmployee(KeyPool[1], 1)),
   serialize(ValidEmployee(KeyPool[2], 2)),
   serialize(ValidEmployee(KeyPool[2], 1)),
   <<65,66,49,50,51,52,124,65,110,110>>,
   LineWithField(5), LineWithField(6), LineWithField(9), LineWithField(10),
   LineWithField(12),
   serialize([InvalidEmployees[2] EXCEPT !.id = KeyPool[3]]),
   <<>>}

RECURSIVE LinesUpTo(_)
LinesUpTo(n) ==
  IF n = 0 THEN {<<>>}
  ELSE LinesUpTo(n - 1)
         \cup {Append(ls, l) : ls \in {x \in LinesUpTo(n - 1) : Len(x) = n - 1},
                               l \in LinePool}

InitLoad ==
  /\ tables = [o \in {"temp_db"} |-> EmployeeHashTable(DEFAULT_BUCKET_COUNT)]
  /\ last = Call("construct", "temp_db", <<>>, Employee, "none", FALSE)
  /\ crashed = FALSE
  /\ \E ls \in LinesUpTo(MaxLoadLines) :
       files = [f \in {DataManager.data_file} |->
                  <<IntToString(Len(ls))>> \o ls]
  /\ cli = [phase |-> "none"]
  /\ threads = [t \in {} |-> <<>>]
  /\ mutex = [o \in {} |-> 0]

NextLoad == Load("temp_db")

SpecLoad == InitLoad /\ [][NextLoad]_vars

(***************************************************************************)
(* The program over several runs: started, used by an administrator who    *)
(* adds, edits and removes records, left through Exit, started again.      *)
(***************************************************************************)
\* the times of the starts: half a second past a whole second
StartTimes == {500000000, 1500000000}

\* the ids the administrator types
PersistKeys == {KeyPool[1], KeyPool[4]}

\* the record added: 12345.67 as its salary
PersistInputs ==
  {[ValidEmployee(KeyPool[1], 1) EXCEPT !.salary = 1234567,
                                        !.hireDate = from_time_t(1)]}

InitPersist ==
  /\ tables = [o \in {} |-> <<>>]
  /\ last = Call("none", "db", <<>>, Employee, "none", FALSE)
  /\ crashed = FALSE
  /\ files = [f \in {} |-> <<>>]
  /\ cli = [phase |-> "stopped"]
  /\ threads = [t \in {} |-> <<>>]
  /\ mutex = [o \in {} |-> 0]

NextPersist ==
  \/ \E now \in StartTimes : Start(now)
  \/ Exit
  \/ \E emp \in PersistInputs : Insert("db", emp, MaxElements)
  \/ \E id \in PersistKeys : Remove("db", id)
  \/ \E id \in PersistKeys : UpdateEmployee(id, FirstNames[2])

SpecPersist == InitPersist /\ [][NextPersist]_vars

(***************************************************************************)
(* Distinct records inserted one after the other into a table built with   *)
(* the default bucket count or a small one.                                *)
(***************************************************************************)
KeyIndex(id) == CHOOSE i \in 1..Len(KeyPool) : KeyPool[i] = id

\* the callers insert the ids of GrowKeys in the order of KeyPool,
\* leaving out any of them
GrowInsert(emp) ==
  /\ Alive("db")
  /\ \A e \in UNION {Range(tables["db"].table[i]) :
                       i \in 1..Len(tables["db"].table)} :
       KeyIndex(e.id) < KeyIndex(emp.id)
  /\ InsertCall("db", emp)

InitGrow ==
  /\ \E n \in (0..MaxInitialBuckets) \cup {DEFAULT_BUCKET_COUNT} :
       tables = [o \in {"db"} |-> EmployeeHashTable(n)]
  /\ last = Call("construct", "db", <<>>, Employee, "none", FALSE)
  /\ crashed = FALSE
  /\ EnvInit

NextGrow == \E id \in GrowKeys : GrowInsert(ValidEmployee(id, 1))

SpecGrow == InitGrow /\ [][NextGrow]_vars

(***************************************************************************)
(* One table of 2 buckets shared by two threads: the second record the     *)
(* table takes makes insert rehash it to 5 buckets.                        *)
(***************************************************************************)
RehashThreads == {1, 2}

RehashKeys == {KeyPool[1], KeyPool[2]}

RehashInputs == {ValidEmployee(id, 1) : id \in RehashKeys} \cup InvalidInputs(1)

InitRehash ==
  /\ tables = [o \in {"db"} |-> EmployeeHashTable(2)]
  /\ last = Call("none", "none", <<>>, Employee, "none", FALSE)
  /\ crashed = FALSE
  /\ files = [f \in {} |-> <<>>]
  /\ cli = [phase |-> "none"]
  /\ threads = [t \in RehashThreads |-> IdleThread]
  /\ mutex = [o \in {"db"} |-> 0]

NextRehash ==
  \E t \in RehashThreads :
    \/ \E emp \in RehashInputs : LockGuard(t, "insert", "db", emp.id, emp)
    \/ \E id \in RehashKeys : LockGuard(t, "remove", "db", id, Employee)
    \/ \E id \in RehashKeys : LockGuard(t, "find", "db", id, Employee)
    \/ \E id \in RehashKeys :
         LockGuard(t, "update", "db", id, ValidEmployee(id, 2))
    \/ LockGuard(t, "search", "db", <<>>, Employee)
    \/ LockGuard(t, "size", "db", <<>>, Employee)
    \/ \E member \in {"element_count", "bucket_count"} :
         LoadFactorFirst(t, "db", member)
    \/ LockedStep(t)
    \/ UpdateLocked(t)
    \/ SizeLocked(t)
    \/ LoadFactorSecond(t)

SpecRehash == InitRehash /\ [][NextRehash]_vars

(***************************************************************************)
(* Two tables, two threads that move one table into the other, in either   *)
(* direction, and threads that call insert, remove, find and search on     *)
(* them.                                                                   *)
(***************************************************************************)
Movers == {1, 2}

Callers == 3..(2 + NumCallers)

LockKeys == {KeyPool[1], KeyPool[2]}

InitLock ==
  /\ tables = [o \in Objects |->
                 IF o = "db"
                 THEN insert(EmployeeHashTable(2),
                             ValidEmployee(KeyPool[1], 1)).t
                 ELSE EmployeeHashTable(2)]
  /\ last = Call("none", "none", <<>>, Employee, "none", FALSE)
  /\ crashed = FALSE
  /\ files = [f \in {} |-> <<>>]
  /\ cli = [phase |-> "none"]
  /\ threads = [t \in Movers \cup Callers |-> IdleThread]
  /\ mutex = [o \in Objects |-> 0]

NextLock ==
  \/ \E t \in Movers, dst \in Objects, src \in Objects :
       MoveAssignCall(t, dst, src)
  \/ \E t \in Callers, o \in Objects :
       \/ LockGuard(t, "insert", o, KeyPool[2], ValidEmployee(KeyPool[2], 1))
       \/ \E id \in LockKeys : LockGuard(t, "remove", o, id, Employee)
       \/ \E id \in LockKeys : LockGuard(t, "find", o, id, Employee)
       \/ LockGuard(t, "search", o, <<>>, Employee)
  \/ \E t \in Movers \cup Callers : ThreadStep(t)

SpecLock == InitLock /\ [][NextLock]_vars

(***************************************************************************)
(* Threads that call and move two tables, a call and the taking of the     *)
(* lock being two steps, under a fair scheduler: a thread that can take a  *)
(* step inside its call does so in the end, and a thread that waits for a  *)
(* mutex that is free again and again gets it in the end.                  *)
(***************************************************************************)
InitFair ==
  /\ tables = [o \in Objects |->
                 IF o = "db"
                 THEN insert(EmployeeHashTable(2),
                             ValidEmployee(KeyPool[1], 1)).t
                 ELSE EmployeeHashTable(2)]
  /\ last = Call("none", "none", <<>>, Employee, "none", FALSE)
  /\ crashed = FALSE
  /\ files = [f \in {} |-> <<>>]
  /\ cli = [phase |-> "none"]
  /\ threads = [t \in RehashThreads |-> IdleThread]
  /\ mutex = [o \in Objects |-> 0]

NextFair ==
  \E t \in RehashThreads :
    \/ MoveAssignCall(t, "db", "temp_db")
    \/ \E o \in Objects :
         \/ \E emp \in RehashInputs : Enter(t, "insert", o, emp.id, emp)
         \/ Enter(t, "remove", o, KeyPool[1], Employee)
         \/ Enter(t, "find", o, KeyPool[1], Employee)
         \/ \E emp \in RehashInputs : Enter(t, "update", o, KeyPool[1], emp)
         \/ Enter(t, "search", o, <<>>, Employee)
    \/ Acquire(t)
    \/ ThreadStep(t)
    \/ UpdateLocked(t)

SpecFair ==
  /\ InitFair
  /\ [][NextFair]_vars
  /\ \A t \in RehashThreads :
       /\ WF_vars(ThreadStep(t) \/ UpdateLocked(t))
       /\ SF_vars(Acquire(t))

(***************************************************************************)
(* The Employee objects the nodes own.  A stored record has one more       *)
(* field, addr, the address of the object that the unique_ptr of its node  *)
(* points to; threads[t].ref is the pointer find has returned to thread t, *)
(* with the table and the key it was asked for.  An address is not given   *)
(* out again while a pointer to it is kept.                                *)
(***************************************************************************)
\* the number of addresses
MaxObjects == 3

\* the object at address addr with the contents of emp
ObjectAt(addr, emp) ==
  [f \in DOMAIN emp \cup {"addr"} |-> IF f = "addr" THEN addr ELSE emp[f]]

\* the addresses of the objects the nodes of the tables own
OwnedAddresses ==
  UNION {{e.addr : e \in Range(get_all(tables[o]))} : o \in DOMAIN tables}

\* an address that no node owns and no thread keeps
FreshAddress ==
  CHOOSE a \in 1..(MaxObjects + 1) :
    /\ a \notin OwnedAddresses
    /\ \A t \in DOMAIN threads :
         threads[t].ref = <<>> \/ threads[t].ref[1].addr # a
    /\ \A b \in 1..(a - 1) :
         \/ b \in OwnedAddresses
         \/ \E t \in DOMAIN threads :
              threads[t].ref # <<>> /\ threads[t].ref[1].addr = b

\* update makes a new object for the record
UpdateObject_new_object(o, id, updated_emp) ==
  /\ FreshAddress <= MaxObjects
  /\ Update(o, id, ObjectAt(FreshAddress, updated_emp))

\* insert, line 391: std::make_unique<Employee>(emp) is what the new node
\* owns
InsertObject(o, emp, max) ==
  /\ FreshAddress <= MaxObjects
  /\ Insert(o, ObjectAt(FreshAddress, emp), max)

\* update, line 459: *current->employee = updated_emp assigns to the
\* object the node owns
UpdateObject(o, id, updated_emp) ==
  /\ Alive(o)
  /\ tables[o].bucket_count > 0
  /\ LET current == find(tables[o], id) IN
       Update(o, id, ObjectAt(IF current = <<>> THEN 0 ELSE current[1].addr,
                              updated_emp))

\* find, line 441: current->employee.get() is returned to thread t, which
\* keeps it
FindObject(t, o, id) ==
  /\ Alive(o)
  /\ tables[o].bucket_count > 0
  /\ LET current == find(tables[o], id) IN
       /\ threads' = [threads EXCEPT ![t].ref =
                        IF current = <<>> THEN <<>>
                        ELSE <<[obj |-> o, id |-> id,
                                addr |-> current[1].addr]>>]
       /\ last' = Call("find", o, id, Employee,
                       IF current = <<>> THEN "nullptr" ELSE "found", FALSE)
  /\ UNCHANGED <<tables, crashed, files, cli, mutex>>

RefKeys == {KeyPool[1], KeyPool[2]}

\* the one thread that keeps a pointer
RefHolders == {1}

InitRefs ==
  /\ tables = [o \in Objects |-> EmployeeHashTable(2)]
  /\ last = Call("construct", "db", <<>>, Employee, "none", FALSE)
  /\ crashed = FALSE
  /\ files = [f \in {} |-> <<>>]
  /\ cli = [phase |-> "none"]
  /\ threads = [t \in RefHolders |-> [ref |-> <<>>]]
  /\ mutex = [o \in Objects |-> 0]

NextRefs ==
  \/ \E o \in Objects, id \in RefKeys :
       InsertObject(o, ValidEmployee(id, 1), MaxObjects)
  \/ \E id \in RefKeys : UpdateObject("db", id, ValidEmployee(id, 2))
  \/ \E id \in RefKeys : Remove("db", id)
  \/ \E t \in RefHolders, id \in RefKeys : FindObject(t, "db", id)
  \/ \E dst \in Objects, src \in Objects : MoveAssign(dst, src)
  \/ Crash("db")

SpecRefs == InitRefs /\ [][NextRefs]_vars

(***************************************************************************)
(* The three kinds of mutex together: Logger::log_mutex, the table_mutex   *)
(* of each table and the file_mutex of each DataManager.  A call is the    *)
(* sequence of the lock() and unlock() it makes, in the order of the       *)
(* source; threads[t].script is what thread t has still to do of its call  *)
(* and mutex[m] the thread that holds m, 0 for none.  A table_mutex goes   *)
(* by the name of its table, a file_mutex by the name of its DataManager.  *)
(***************************************************************************)
\* Logger::log: the lock_guard of line 46 and its destruction
LoggerLog == << <<"lock", "log_mutex">>, <<"unlock", "log_mutex">> >>

RECURSIVE Times(_, _)
Times(n, script) == IF n = 0 THEN <<>> ELSE script \o Times(n - 1, script)

\* get_all takes the lock itself before it calls search
TableCall_get_all_locks(op, o, outcome) ==
  IF op = "load_factor" THEN <<>>
  ELSE LET logs == IF op \in {"find", "size", "get_statistics"} THEN 0
                   ELSE IF op = "insert" /\ outcome = "rehash" THEN 3
                   ELSE 1
           body == << <<"lock", o>> >> \o Times(logs, LoggerLog)
                     \o << <<"unlock", o>> >>
       IN IF op = "get_all"
          THEN << <<"lock", o>> >> \o body \o << <<"unlock", o>> >>
          ELSE body

\* a public operation of table o: the lock_guard on table_mutex, the calls
\* of Logger::log made with it held, its destruction.  find, size and
\* get_statistics log nothing; insert logs once, and twice more inside
\* rehash; remove, update and search log once on every path; get_all is
\* search; load_factor takes no lock
TableCall(op, o, outcome) ==
  IF op = "load_factor" THEN <<>>
  ELSE LET logs == IF op \in {"find", "size", "get_statistics"} THEN 0
                   ELSE IF op = "insert" /\ outcome = "rehash" THEN 3
                   ELSE 1
       IN << <<"lock", o>> >> \o Times(logs, LoggerLog)
            \o << <<"unlock", o>> >>

\* DataManager::save and DataManager::export_csv of manager f on table o:
\* file_mutex, then either the message that the file cannot be opened or
\* get_all and the message at the end
SaveCall(f, o, opened) ==
  << <<"lock", f>> >>
    \o (IF opened THEN TableCall("get_all", o, "true") \o LoggerLog
        ELSE LoggerLog)
    \o << <<"unlock", f>> >>

\* the loop of DataManager::load: for each line what became of it.  "bad"
\* is a line deserialize rejects with an EmployeeException, "throw" a
\* record insert rejects, "abort" a line that ends the load
RECURSIVE LoadLines(_, _)
LoadLines(o, outcomes) ==
  IF outcomes = <<>> THEN LoggerLog
  ELSE LET line == Head(outcomes) IN
    IF line = "abort" THEN LoggerLog
    ELSE IF line = "bad" THEN LoggerLog \o LoadLines(o, Tail(outcomes))
    ELSE TableCall("insert", o, line)
           \o (IF line = "throw" THEN LoggerLog ELSE <<>>)
           \o LoadLines(o, Tail(outcomes))

\* DataManager::load of manager f into table o
LoadCall(f, o, opened, outcomes) ==
  << <<"lock", f>> >>
    \o (IF opened THEN LoadLines(o, outcomes) ELSE LoggerLog)
    \o << <<"unlock", f>> >>

\* thread t makes a call
Invoke(t, script) ==
  /\ threads[t].script = <<>>
  /\ script # <<>>
  /\ threads' = [threads EXCEPT ![t].script = script]
  /\ UNCHANGED <<tables, last, crashed, files, cli, mutex>>

\* std::mutex::lock returns to thread t; on a mutex that t holds already
\* it never does
MutexLock(t) ==
  /\ threads[t].script # <<>>
  /\ Head(threads[t].script)[1] = "lock"
  /\ mutex[Head(threads[t].script)[2]] = 0
  /\ mutex' = [mutex EXCEPT ![Head(threads[t].script)[2]] = t]
  /\ threads' = [threads EXCEPT ![t].script = Tail(@)]
  /\ UNCHANGED <<tables, last, crashed, files, cli>>

\* a lock_guard of thread t is destroyed
MutexUnlock(t) ==
  /\ threads[t].script # <<>>
  /\ Head(threads[t].script)[1] = "unlock"
  /\ mutex' = [mutex EXCEPT ![Head(threads[t].script)[2]] = 0]
  /\ threads' = [threads EXCEPT ![t].script = Tail(@)]
  /\ UNCHANGED <<tables, last, crashed, files, cli>>

\* the tables and the managers of load_backup: the live table with the
\* manager of the data file, temp_db with the manager of the backup
MutexTables == {"db", "temp_db"}
MutexManagers == {"data_manager", "backup_manager"}

\* the calls the threads make
MutexCalls ==
  {LoggerLog}
    \cup {TableCall(op, o, "true") :
            op \in {"insert", "remove", "find", "update", "search",
                    "get_all", "size", "get_statistics"},
            o \in MutexTables}
    \cup {TableCall("insert", o, "rehash") : o \in MutexTables}
    \cup {SaveCall(f, "db", opened) :
            f \in MutexManagers, opened \in BOOLEAN}
    \cup {LoadCall("data_manager", "db", opened, outcomes) :
            opened \in BOOLEAN,
            outcomes \in {<<>>, <<"true", "bad">>, <<"throw", "rehash">>,
                          <<"false", "abort">>}}
    \cup {LoadCall("backup_manager", "temp_db", TRUE, <<"true">>)}

InitMutexes ==
  /\ tables = [o \in MutexTables |-> EmployeeHashTable(DEFAULT_BUCKET_COUNT)]
  /\ last = Call("none", "none", <<>>, Employee, "none", FALSE)
  /\ crashed = FALSE
  /\ files = [f \in {} |-> <<>>]
  /\ cli = [phase |-> "none"]
  /\ threads = [t \in RehashThreads |-> [script |-> <<>>]]
  /\ mutex = [m \in MutexTables \cup MutexManagers \cup {"log_mutex"} |-> 0]

NextMutexes ==
  \E t \in RehashThreads :
    \/ \E script \in MutexCalls : Invoke(t, script)
    \/ MutexLock(t)
    \/ MutexUnlock(t)

SpecMutexes == InitMutexes /\ [][NextMutexes]_vars

(***************************************************************************)
(* AdvancedCLI (src/main.cpp 727-1746): one session of the menu program.   *)
(* In a session cli.phase is "stopped", "login" or "menu" and              *)
(* cli.currentUser is <<>> or the one record login copied.  What the user  *)
(* types at a prompt is a string, <<>> for an empty line.                  *)
(***************************************************************************)
\* DataManager(filename)
DataManagerOf(filename) ==
  [data_file |-> filename, backup_file |-> filename \o ".bak"]

\* login(): the ids typed, attempts tries left; the record copied into
\* currentUser as a one-element sequence, <<>> when login returns false
RECURSIVE login(_, _, _)
login(table, ids, attempts) ==
  IF attempts = 0 \/ ids = <<>> THEN <<>>
  ELSE LET emp == find(table, Head(ids)) IN
    IF emp # <<>> THEN emp ELSE login(table, Tail(ids), attempts - 1)

\* skill.erase(0, skill.find_first_not_of(" \t"))
RECURSIVE TrimLeft(_)
TrimLeft(str) ==
  IF str # <<>> /\ Head(str) \in {32, 9} THEN TrimLeft(Tail(str)) ELSE str

\* skill.erase(skill.find_last_not_of(" \t") + 1)
RECURSIVE TrimRight(_)
TrimRight(str) ==
  IF str # <<>> /\ str[Len(str)] \in {32, 9}
  THEN TrimRight(SubSeq(str, 1, Len(str) - 1)) ELSE str

\* get_skills_input(): the line typed, cut at the commas, every piece
\* trimmed and the empty ones dropped
get_skills_input(skills_str) ==
  LET pieces == IF skills_str = <<>> THEN <<>>
                ELSE getline_tokens(skills_str, 44)
      trimmed == [i \in 1..Len(pieces) |-> TrimRight(TrimLeft(pieces[i]))]
  IN SelectSeq(trimmed, LAMBDA skill : skill # <<>>)

\* what is typed into Edit My Profile: four lines, the answer to the
\* question about the skills and the line of skills
ProfileInput ==
  [firstName |-> <<>>, lastName |-> <<>>, phone |-> <<>>, email |-> <<>>,
   change_skills |-> <<110>>, skills |-> <<>>]

\* edit_my_profile(): the table, what update returned (the exception is
\* caught), the record passed to update and currentUser afterwards
edit_my_profile(currentUser, table, input) ==
  LET a == IF input.firstName # <<>>
           THEN [currentUser EXCEPT !.firstName = input.firstName]
           ELSE currentUser
      b == IF input.lastName # <<>>
           THEN [a EXCEPT !.lastName = input.lastName] ELSE a
      c == IF input.phone # <<>> THEN [b EXCEPT !.phone = input.phone] ELSE b
      e == IF input.email # <<>> THEN [c EXCEPT !.email = input.email] ELSE c
      updated == IF input.change_skills \in {<<121>>, <<89>>}
                 THEN [e EXCEPT !.skills = get_skills_input(input.skills)]
                 ELSE e
      r == update(table, currentUser.id, updated)
  IN [t |-> r.t, ret |-> r.ret, updated |-> updated,
      currentUser |-> IF r.ret = "true" THEN updated ELSE currentUser]

\* what is typed into Update Employee after the id: a line per string
\* field, the salary as the number stod reads or <<>> for an empty or
\* unreadable line, and for department, status and access level the new
\* value when the answer is y, <<>> otherwise; there is no prompt for id,
\* hireDate and skills
UpdateInput ==
  [firstName |-> <<>>, lastName |-> <<>>, position |-> <<>>,
   department |-> <<>>, salary |-> <<>>, email |-> <<>>, phone |-> <<>>,
   managerId |-> <<>>, status |-> <<>>, accessLevel |-> <<>>,
   id |-> <<>>, hireDate |-> <<>>, skills |-> <<>>]

\* update_employee(): the table, what was returned and the record passed
\* to update
update_employee(table, id, input) ==
  LET emp == find(table, id) IN
  IF emp = <<>>
  THEN [t |-> table, ret |-> "not found", updated |-> Employee]
  ELSE
    LET chosen == {"department", "salary", "status", "accessLevel"}
        updated == [field \in DOMAIN Employee |->
                      IF input[field] = <<>> THEN emp[1][field]
                      ELSE IF field \in chosen THEN input[field][1]
                      ELSE input[field]]
        r == update(table, id, updated)
    IN [t |-> r.t, ret |-> r.ret, updated |-> updated]

\* remove_employee(): the table and what was returned
remove_employee(table, id, confirm) ==
  IF find(table, id) = <<>> THEN [t |-> table, ret |-> "not found"]
  ELSE IF confirm \in {"yes", "YES", "y", "Y"} THEN remove(table, id)
  ELSE [t |-> table, ret |-> "cancelled"]

\* db = std::move(temp_db) when load has returned true, r being what load
\* made of temp_db; the live table and what was returned
replace_when_loaded(table, r) ==
  IF r.ret
  THEN [t |-> move_assign(table, r.t).this, ret |-> "true",
        loaded |-> r.loaded]
  ELSE [t |-> table, ret |-> "false", loaded |-> r.loaded]

\* load_backup(): temp_db is built, loaded and, when load returns true,
\* moved into the live table
load_backup(table, fs, filename, confirm) ==
  IF confirm \in {"yes", "YES"}
  THEN replace_when_loaded(table,
         load(DataManagerOf(filename), fs,
              EmployeeHashTable(DEFAULT_BUCKET_COUNT)))
  ELSE [t |-> table, ret |-> "cancelled", loaded |-> 0]

\* the live table is emptied by moving it into a temporary
clear_all_by_moving_out(table, confirm) ==
  IF confirm = "DELETE ALL"
  THEN [t |-> move_construct(table).other, ret |-> "true"]
  ELSE [t |-> table, ret |-> "cancelled"]

\* Clear All Data of data_management(): db = EmployeeHashTable()
clear_all(table, confirm) ==
  IF confirm = "DELETE ALL"
  THEN [t |-> move_assign(table, EmployeeHashTable(DEFAULT_BUCKET_COUNT)).this,
        ret |-> "true"]
  ELSE [t |-> table, ret |-> "cancelled"]

\* a user is logged in
LoggedIn == cli.phase = "running" /\ cli.currentUser # <<>>

\* the menu shown is the administrator's
IsAdmin == cli.currentUser[1].accessLevel = ADMIN

\* run() up to the menu: login() with the ids typed; when it fails run
\* returns, ~AdvancedCLI saves and the table is destroyed
Login(ids) ==
  /\ cli.phase = "running"
  /\ cli.currentUser = <<>>
  /\ Alive("db")
  /\ tables["db"].bucket_count > 0
  /\ LET emp == login(tables["db"], ids, 3) IN
       IF emp # <<>>
       THEN /\ cli' = [cli EXCEPT !.currentUser = emp]
            /\ last' = Call("login", "db", emp[1].id, emp[1], "true", FALSE)
            /\ UNCHANGED <<tables, files>>
       ELSE /\ cli' = [cli EXCEPT !.phase = "stopped"]
            /\ files' = save(DataManager, files, tables["db"])
            /\ tables' = [o \in {} |-> <<>>]
            /\ last' = Call("login", "db", <<>>, Employee, "false", FALSE)
  /\ UNCHANGED <<crashed, threads, mutex>>

\* Edit My Profile
EditMyProfile(input) ==
  /\ LoggedIn
  /\ Alive("db")
  /\ tables["db"].bucket_count > 0
  /\ LET r == edit_my_profile(cli.currentUser[1], tables["db"], input) IN
       /\ tables' = [tables EXCEPT !["db"] = r.t]
       /\ cli' = [cli EXCEPT !.currentUser = <<r.currentUser>>]
       /\ last' = Call("edit_my_profile", "db", cli.currentUser[1].id,
                       r.updated, r.ret, FALSE)
  /\ UNCHANGED <<crashed, files, threads, mutex>>

\* Update Employee with everything its prompts take
UpdateEmployeeFields(id, input) ==
  /\ LoggedIn
  /\ Alive("db")
  /\ tables["db"].bucket_count > 0
  /\ LET r == update_employee(tables["db"], id, input) IN
       /\ tables' = [tables EXCEPT !["db"] = r.t]
       /\ last' = Call("update_employee", "db", id, r.updated, r.ret, FALSE)
  /\ UNCHANGED <<crashed, env>>

\* Remove Employee
RemoveEmployee(id, confirm) ==
  /\ LoggedIn
  /\ Alive("db")
  /\ tables["db"].bucket_count > 0
  /\ LET r == remove_employee(tables["db"], id, confirm) IN
       /\ tables' = [tables EXCEPT !["db"] = r.t]
       /\ last' = Call("remove_employee", "db", id, Employee, r.ret, FALSE)
  /\ UNCHANGED <<crashed, env>>

\* Create Manual Backup, into a new file named after the date and the
\* time of day
ManualBackup(filename) ==
  /\ LoggedIn
  /\ Alive("db")
  /\ filename \notin DOMAIN files
  /\ files' = save(DataManagerOf(filename), files, tables["db"])
  /\ last' = Call("manual_backup", "db", filename, Employee, "true", FALSE)
  /\ UNCHANGED <<tables, crashed, cli, threads, mutex>>

\* the live table becomes r.t; the call recorded has the file name as its
\* id and the number of records read as its result
Replaced(op, filename, r) ==
  /\ tables' = [tables EXCEPT !["db"] = r.t]
  /\ last' = [Call(op, "db", filename, Employee, r.ret, FALSE)
                EXCEPT !.results = <<r.loaded>>]

\* Load from Backup
LoadBackup(filename, confirm) ==
  /\ LoggedIn
  /\ Alive("db")
  /\ Replaced("load_backup", filename,
              load_backup(tables["db"], files, filename, confirm))
  /\ UNCHANGED <<crashed, env>>

\* Reload from File of data_management()
ReloadData(confirm) ==
  /\ LoggedIn
  /\ Alive("db")
  /\ Replaced("reload", DataManager.data_file,
              load_backup(tables["db"], files, DataManager.data_file,
                          confirm))
  /\ UNCHANGED <<crashed, env>>

\* Clear All Data of data_management()
ClearAllData(confirm) ==
  /\ LoggedIn
  /\ Alive("db")
  /\ LET r == clear_all(tables["db"], confirm) IN
       /\ tables' = [tables EXCEPT !["db"] = r.t]
       /\ last' = Call("clear_all", "db", <<>>, Employee, r.ret, FALSE)
  /\ UNCHANGED <<crashed, env>>

(***************************************************************************)
(* A session of the menu program: it has been started, somebody logs in,   *)
(* works with the menu of their access level and leaves.  A file that load *)
(* gives up on lies in the directory.                                      *)
(***************************************************************************)
\* the ids typed: the default admin's and the one of the record added
SessionKeys == {DefaultAdmin(0).id, KeyPool[1]}

\* what is typed at the login prompt: an id, a wrong id and then the
\* admin's, three wrong ids
LoginInputs ==
  {<<id>> : id \in SessionKeys} \cup
  {<<KeyPool[2], DefaultAdmin(0).id>>, <<KeyPool[2], KeyPool[2], KeyPool[2]>>}

\* the record Add Employee builds: a user with BASIC access
SessionAdds == {ValidEmployee(KeyPool[1], 1)}

\* Edit My Profile: a new first name with " C++ , ,Go" as the skills; a
\* first name that validate rejects
ProfileInputs ==
  {[ProfileInput EXCEPT !.firstName = FirstNames[2],
                        !.change_skills = <<121>>,
                        !.skills = <<32,67,43,43,32,44,32,44,71,111>>],
   [ProfileInput EXCEPT !.firstName = <<65>>]}

\* Update Employee: a new position and salary
UpdateInputs ==
  {[UpdateInput EXCEPT !.position = Positions[2],
                       !.salary = <<2000 * CentsPerUnit>>]}

\* the file a manual backup writes, and the names typed into Load from
\* Backup: that file, a file that does not exist, the file with a salary
\* that is not a number
BackupName == "backup.dat"
LoadNames == {BackupName, "missing.dat", "broken.dat"}

\* the switch of run() for a user with BASIC access is the administrator's
BasicMenu_as_admin ==
  /\ LoggedIn
  /\ ~IsAdmin
  /\ \/ \E id \in SessionKeys : Find("db", id)
     \/ GetAll("db")
     \/ \E input \in ProfileInputs : EditMyProfile(input)
     \/ Exit
     \/ \E id \in SessionKeys : RemoveEmployee(id, "yes")

\* the switch of run() for a user with BASIC access: find_employee,
\* display_all_employees, edit_my_profile, save and return
BasicMenu ==
  /\ LoggedIn
  /\ ~IsAdmin
  /\ \/ \E id \in SessionKeys : Find("db", id)
     \/ GetAll("db")
     \/ \E input \in ProfileInputs : EditMyProfile(input)
     \/ Exit

\* the switch of run() for an administrator
AdminMenu ==
  /\ LoggedIn
  /\ IsAdmin
  /\ \/ \E emp \in SessionAdds : Insert("db", emp, MaxElements)
     \/ \E id \in SessionKeys : RemoveEmployee(id, "yes")
     \/ \E id \in {DefaultAdmin(0).id, KeyPool[2]}, input \in UpdateInputs :
          UpdateEmployeeFields(id, input)
     \/ \E id \in SessionKeys : Find("db", id)
     \/ ManualBackup(BackupName)
     \/ \E filename \in LoadNames : LoadBackup(filename, "yes")
     \/ LoadBackup(BackupName, "no")
     \/ ReloadData("yes")
     \/ ClearAllData("DELETE ALL")
     \/ \E input \in ProfileInputs : EditMyProfile(input)
     \/ Exit

\* the directory at the start: the file load gives up on, and either no
\* data file or the one an earlier session left, with the admin and a
\* user with BASIC access
SessionFiles ==
  LET broken == [f \in {"broken.dat"} |->
                   <<IntToString(1), LineWithField(6)>>]
      earlier == insert(main_setup(broken, 0).t, ValidEmployee(KeyPool[1], 1)).t
  IN {broken, save(DataManager, broken, earlier)}

\* the program has been started and asks for the id to log in with
InitSession ==
  /\ files \in SessionFiles
  /\ tables = [o \in {"db"} |-> main_setup(files, 500000000).t]
  /\ last = Call("start", "db", <<>>, DefaultAdmin(500000000), "true", FALSE)
  /\ crashed = FALSE
  /\ cli = [phase |-> "running", currentUser |-> <<>>]
  /\ threads = [t \in {} |-> <<>>]
  /\ mutex = [o \in {} |-> 0]

NextSession ==
  \/ \E ids \in LoginInputs : Login(ids)
  \/ AdminMenu
  \/ BasicMenu

SpecSession == InitSession /\ [][NextSession]_vars

(***************************************************************************)
(* Vocabulary of the properties.                                           *)
(***************************************************************************)
db == tables["db"]

\* every record stored in table object t, in any chain
StoredRecords(t) == UNION {Range(t.table[i]) : i \in 1..Len(t.table)}

RECURSIVE SumLen(_, _)
SumLen(tab, i) == IF i > Len(tab) THEN 0 ELSE Len(tab[i]) + SumLen(tab, i + 1)

\* the number of nodes reachable across all chains of t
NodeCount(t) == SumLen(t.table, 1)

RECURSIVE SumCopies(_, _, _)
SumCopies(tab, i, emp) ==
  IF i > Len(tab) THEN 0
  ELSE Cardinality({j \in 1..Len(tab[i]) : tab[i][j] = emp})
         + SumCopies(tab, i + 1, emp)

\* the number of nodes of t that hold exactly the record emp
Copies(t, emp) == SumCopies(t.table, 1, emp)

\* the key is present: the lookup of the key in its bucket finds a node
Present(t, id) == find(t, id) # <<>>

IsPrime(n) == n >= 2 /\ \A d \in 2..(n - 1) : n % d # 0

SmallestPrimeAtLeast(n) ==
  CHOOSE p \in n..(2 * n + 2) : IsPrime(p) /\ \A q \in n..(p - 1) : ~IsPrime(q)

IsInsert(call) == call.op = "insert"
IsUpdate(call) == call.op = "update"

(***************************************************************************)
(* C1: whenever no operation is in progress on a table built by the        *)
(* constructor and driven by insert, remove and update, its load factor    *)
(* is at most 0.75: 4 * element_count <= 3 * bucket_count.                 *)
(***************************************************************************)
LoadFactorBound == 4 * db.element_count <= 3 * db.bucket_count

\* an insert has returned true after a rehash, and the table holds
\* at least two nodes
LoadFactorBoundWitness ==
  /\ IsInsert(last) /\ last.ret = "true" /\ last.rehashed
  /\ db.element_count >= 2

(***************************************************************************)
(* C2: no two nodes of the table, in the same chain or in different        *)
(* chains, carry the same record id.                                       *)
(***************************************************************************)
NoDuplicateIds ==
  \A i1, i2 \in 1..Len(db.table) :
    \A j1 \in 1..Len(db.table[i1]) : \A j2 \in 1..Len(db.table[i2]) :
      db.table[i1][j1].id = db.table[i2][j2].id => (i1 = i2 /\ j1 = j2)

(***************************************************************************)
(* C5: a rehash leaves the collection of stored records as it was: an      *)
(* insert that rehashed ends with the records held before the call and     *)
(* the inserted record, each as many times as before the rehash.           *)
(***************************************************************************)
RehashPreservesRecords ==
  [][(IsInsert(last') /\ last'.rehashed) =>
       /\ tables'["db"].element_count = db.element_count + 1
       /\ \A emp \in StoredRecords(db) \cup {last'.emp} :
            Copies(tables'["db"], emp) =
              Copies(db, emp) + (IF emp = last'.emp THEN 1 ELSE 0)]_vars

(***************************************************************************)
(* C7: insert(r) with r valid and the key of r absent returns true, and    *)
(* find(r.id) right after it returns a record equal to r in every field.   *)
(***************************************************************************)
InsertThenFind ==
  [][(IsInsert(last') /\ validate(last'.emp) = "ok"
        /\ ~Present(db, last'.emp.id)) =>
       /\ last'.ret = "true"
       /\ find(tables'["db"], last'.emp.id) = <<last'.emp>>]_vars

(***************************************************************************)
(* C8: insert(r) with r valid and the key of r present returns false and   *)
(* changes nothing: bucket_count, element_count and every chain are as     *)
(* before, and find(r.id) returns the record it returned before.           *)
(***************************************************************************)
DuplicateRejected ==
  [][(IsInsert(last') /\ validate(last'.emp) = "ok"
        /\ Present(db, last'.emp.id)) =>
       /\ last'.ret = "false"
       /\ tables' = tables
       /\ find(tables'["db"], last'.emp.id) = find(db, last'.emp.id)]_vars

\* an insert has returned false for a record whose contents differ from
\* those stored under its key
DuplicateRejectedWitness ==
  /\ IsInsert(last) /\ last.ret = "false"
  /\ Present(db, last.id)
  /\ find(db, last.id) # <<last.emp>>

(***************************************************************************)
(* C9: insert(r) with r failing validation ends with the validation error  *)
(* and leaves bucket_count, element_count and every chain unchanged.       *)
(***************************************************************************)
InvalidInsertThrows ==
  [][(IsInsert(last') /\ validate(last'.emp) # "ok") =>
       /\ last'.ret = "throw"
       /\ tables' = tables]_vars

\* an insert of an invalid record whose key is present has thrown
InvalidInsertThrowsWitness ==
  /\ IsInsert(last) /\ last.ret = "throw"
  /\ Present(db, last.id)
  /\ db.element_count >= 2

(***************************************************************************)
(* C10: update(key, r) with key present and r failing validation ends      *)
(* with the validation error and leaves every record, element_count and    *)
(* bucket_count unchanged.                                                 *)
(***************************************************************************)
InvalidUpdateThrows ==
  [][(IsUpdate(last') /\ validate(last'.emp) # "ok"
        /\ Present(db, last'.id)) =>
       /\ last'.ret = "throw"
       /\ tables' = tables]_vars

\* an update of a present key with an invalid record has thrown
InvalidUpdateThrowsWitness ==
  /\ IsUpdate(last) /\ last.ret = "throw"
  /\ Present(db, last.id)
  /\ db.element_count >= 2

(***************************************************************************)
(* C3: whenever no operation is in progress, element_count of every table  *)
(* object is the number of nodes reachable across its chains, moves        *)
(* included.                                                               *)
(***************************************************************************)
ElementCountIsNodeCount ==
  \A o \in DOMAIN tables : tables[o].element_count = NodeCount(tables[o])

\* a move assignment has transferred at least two records to another
\* object and left the donor empty
ElementCountIsNodeCountWitness ==
  /\ last.op = "move_assign" /\ last.obj # last.ret
  /\ tables[last.obj].element_count >= 2
  /\ tables[last.ret].bucket_count = 0

(***************************************************************************)
(* C4: bucket_count of every table object is prime at all times, also for  *)
(* the destination and the donor of a move.                                *)
(***************************************************************************)
BucketCountPrime ==
  \A o \in DOMAIN tables : IsPrime(tables[o].bucket_count)

(***************************************************************************)
(* C6: a successful insert into a table of B buckets leaves bucket_count   *)
(* at B when the new element_count is at most 0.75 * B, and otherwise      *)
(* returns with bucket_count the smallest prime >= 2 * B; every key        *)
(* inserted so far is still found (B = 17: 17 after the 12th distinct      *)
(* insert, 37 after the 13th).                                             *)
(***************************************************************************)
GrowthAtThreshold ==
  [][(IsInsert(last') /\ last'.ret = "true") =>
       LET B == db.bucket_count
           n == db.element_count + 1
           after == tables'["db"]
       IN /\ (4 * n <= 3 * B) => after.bucket_count = B
          /\ (4 * n > 3 * B) => after.bucket_count = SmallestPrimeAtLeast(2 * B)
          /\ (B = 17 /\ n <= 12) => after.bucket_count = 17
          /\ (B = 17 /\ n = 13) => after.bucket_count = 37
          /\ \A id \in GrowKeys :
               (Present(db, id) \/ id = last'.id) =>
                 /\ Present(after, id)
                 /\ find(after, id)[1].id = id]_vars

\* the 13th distinct insert into a table of 17 buckets has returned
GrowthAtThresholdWitness ==
  /\ IsInsert(last) /\ last.ret = "true" /\ last.rehashed
  /\ db.bucket_count = 37 /\ db.element_count = 13

(***************************************************************************)
(* C11: update checks the new record before it looks the key up: whatever  *)
(* the key, present or absent, update(key, r) with an invalid r ends with  *)
(* the validation error, and it returns false only when r is valid.        *)
(***************************************************************************)
UpdateValidatesFirst ==
  [][IsUpdate(last') =>
       /\ (validate(last'.emp) # "ok") => last'.ret = "throw"
       /\ (last'.ret = "false") => validate(last'.emp) = "ok"]_vars

(***************************************************************************)
(* C12: remove(key) returns true exactly when key was present.  When it    *)
(* returns true element_count goes down by one, find(key) returns nothing  *)
(* afterwards and every other key keeps its record; when it returns false  *)
(* the table is unchanged.  bucket_count is unchanged in both cases.       *)
(***************************************************************************)
RemoveIffPresent ==
  [][(last'.op = "remove") =>
       LET id == last'.id
           after == tables'["db"]
       IN /\ (last'.ret = "true") <=> Present(db, id)
          /\ (last'.ret = "true") =>
               /\ after.element_count = db.element_count - 1
               /\ ~Present(after, id)
               /\ \A k \in AllIds \ {id} : find(after, k) = find(db, k)
          /\ (last'.ret = "false") => after = db
          /\ after.bucket_count = db.bucket_count]_vars

(***************************************************************************)
(* C15: after dest = std::move(donor), with dest and donor two different   *)
(* tables, dest holds donor's chains, bucket_count and element_count as    *)
(* they were before the call and none of its own earlier records that the  *)
(* donor did not hold, and donor is empty: its size() is 0 and it holds no *)
(* record.  A table built by the move constructor takes over the donor in  *)
(* the same way.                                                           *)
(***************************************************************************)
MoveTransfers ==
  [][(last'.op \in {"move_assign", "move_construct"}
        /\ last'.obj # last'.ret) =>
       LET dest == last'.obj
           donor == last'.ret
       IN /\ tables'[dest] = tables[donor]
          /\ StoredRecords(tables'[dest]) = StoredRecords(tables[donor])
          /\ tables'[donor].element_count = 0
          /\ StoredRecords(tables'[donor]) = {}]_vars

\* a table that held one record has just been moved into another table,
\* which now holds that record while the donor holds none
MoveTransfersWitness ==
  /\ last.op = "move_assign" /\ last.obj # last.ret
  /\ tables[last.obj].element_count = 1
  /\ \E e \in StoredRecords(tables[last.obj]) : e.id = KeyPool[2]
  /\ tables[last.ret].element_count = 0

(***************************************************************************)
(* What a record has to satisfy to be returned by a search, stated         *)
(* character by character.                                                 *)
(***************************************************************************)
Folded(c, caseSensitive) ==
  IF ~caseSensitive /\ c >= 65 /\ c <= 90 THEN c + 32 ELSE c

\* text contains wanted at some offset, letters compared without their case
\* unless caseSensitive
ContainsText(text, wanted, caseSensitive) ==
  \E k \in 0..Len(text) :
    /\ k + Len(wanted) <= Len(text)
    /\ \A j \in 1..Len(wanted) :
         Folded(text[k + j], caseSensitive) = Folded(wanted[j], caseSensitive)

Satisfies(e, c) ==
  /\ c.id = <<>> \/ e.id = c.id[1]
  /\ c.firstName = <<>>
       \/ ContainsText(e.firstName, c.firstName[1], c.caseSensitive)
  /\ c.lastName = <<>>
       \/ ContainsText(e.lastName, c.lastName[1], c.caseSensitive)
  /\ c.position = <<>>
       \/ ContainsText(e.position, c.position[1], c.caseSensitive)
  /\ c.department = <<>> \/ e.department = c.department[1]
  /\ c.status = <<>> \/ e.status = c.status[1]
  /\ c.minSalary = <<>> \/ c.minSalary[1] <= e.salary
  /\ c.maxSalary = <<>> \/ e.salary <= c.maxSalary[1]
  /\ c.skill = <<>>
       \/ \E i \in 1..Len(e.skills) :
            ContainsText(e.skills[i], c.skill[1], c.caseSensitive)

\* the nodes of table object t, as <<bucket, place in the chain>>
NodesOf(t) ==
  {n \in (1..Len(t.table)) \X (1..NodeCount(t)) : n[2] <= Len(t.table[n[1]])}

(***************************************************************************)
(* C16: a search with no criterion set returns exactly size() records,     *)
(* one for each id some node stores, with the contents find returns for    *)
(* that id when it finds it, and get_all() returns the same sequence.      *)
(***************************************************************************)
SearchEmptyIsAll ==
  (last.op = "search" /\ last.criteria = SearchCriteria) =>
    LET t == tables[last.obj]
        res == last.results
    IN /\ Len(res) = size(t)
       /\ get_all(t) = res
       /\ \A e \in StoredRecords(t) :
            /\ Cardinality({i \in 1..Len(res) : res[i].id = e.id}) = 1
            /\ Present(t, e.id) =>
                 \E i \in 1..Len(res) : res[i] = find(t, e.id)[1]

RecordLines == Tail(files[DataManager.data_file])

\* character c occurs n times at least in str
HasFields(str, n) == Cardinality({i \in 1..Len(str) : str[i] = 124}) >= n - 1

\* the line has its twelve fields, numbers where numbers are read, and the
\* record it spells passes validate
WellFormed(line) ==
  /\ HasFields(line, 12)
  /\ deserialize(line).ret = "ok"
  /\ validate(deserialize(line).emp) = "ok"

(***************************************************************************)
(* C18: no line aborts a load.  Whatever the lines of the data file are    *)
(* (well-formed records, records whose key came before, lines with too few *)
(* fields, with a department, salary, date, status or access level that is *)
(* not a number, or with a field that fails validation), load returns      *)
(* true, every well-formed record whose key is new is found afterwards     *)
(* with the contents of its line, those after a bad line too, and nothing  *)
(* else is added.                                                          *)
(***************************************************************************)
LoadSkipsBadLines ==
  [][(last'.op = "load") =>
       LET before == tables[last'.obj]
           after == tables'[last'.obj]
           lines == RecordLines
           good == {i \in 1..Len(lines) : WellFormed(lines[i])}
           isNew(i) ==
             /\ ~Present(before, deserialize(lines[i]).emp.id)
             /\ \A j \in good :
                  j < i => deserialize(lines[j]).emp.id
                             # deserialize(lines[i]).emp.id
       IN /\ last'.ret = "true"
          /\ \A i \in good :
               isNew(i) => find(after, deserialize(lines[i]).emp.id)
                             = <<deserialize(lines[i]).emp>>
          /\ after.element_count
               = before.element_count
                   + Cardinality({i \in good : isNew(i)})]_vars

(***************************************************************************)
(* C19: what is saved survives a restart.  When the program is left        *)
(* through Exit with a record for id k in the table, then after the next   *)
(* start (the default admin set up, then employees.dat loaded) find(k)     *)
(* returns a record with the field values it had at the exit, for every    *)
(* id, records edited with update before the exit included.                *)
(***************************************************************************)
SavedSurvivesRestart ==
  [][(last.op = "exit" /\ last'.op = "start") =>
       \A i \in 1..Len(last.results) :
         find(tables'["db"], last.results[i].id) = <<last.results[i]>>]_vars

(***************************************************************************)
(* C20: the default admin XX0069 is built on the first run only.  After a  *)
(* start that finds records in the data file the table holds exactly the   *)
(* records of the file and no newly built admin: a saved XX0069 is the one *)
(* found, and an XX0069 that was removed before the save stays absent.     *)
(***************************************************************************)
AdminOnlyOnFirstRun ==
  [][(last'.op = "start" /\ DataManager.data_file \in DOMAIN files
        /\ Len(RecordLines) > 0) =>
       /\ StoredRecords(tables'["db"])
            = {deserialize(RecordLines[i]).emp : i \in 1..Len(RecordLines)}
       /\ (\A i \in 1..Len(RecordLines) :
             deserialize(RecordLines[i]).emp.id # DefaultAdmin(0).id)
            => ~Present(tables'["db"], DefaultAdmin(0).id)]_vars

\* C13: with several threads calling one table, no call of a public
\* operation reads the table while the insert of another thread is
\* rehashing it: no thread has read element_count, bucket_count or the
\* chains between line 299 of rehash and the end of its loop
NoCallObservesRehash ==
  \A t \in DOMAIN threads : ~threads[t].stale

(***************************************************************************)
(* Vocabulary of the claims about move assignment between two threads.     *)
(***************************************************************************)
\* thread t holds the lock of o and is at work on o: inside the body of a
\* locked call on o, or inside a move assignment of or from o with both
\* locks held
Running(t, o) ==
  \/ /\ threads[t].obj = o
     /\ threads[t].pc \in {"insert", "rehash", "rehash_clear",
                           "rehash_reinsert", "remove", "find", "search",
                           "unlock"}
  \/ /\ o \in {threads[t].obj, threads[t].other}
     /\ threads[t].pc \in {"transfer", "transfer_counts", "transfer_reset",
                           "unlock_both"}

\* the mutex thread t has to get before it can go on, "none" when it
\* waits for no mutex
WaitsFor(t) ==
  IF threads[t].pc = "std_lock" THEN threads[t].first
  ELSE IF threads[t].pc = "std_lock_try"
       THEN IF threads[t].first = threads[t].obj
            THEN threads[t].other ELSE threads[t].obj
       ELSE "none"

\* no thread of S can take a step and each waits for a mutex that a
\* thread of S holds
Deadlocked(S) ==
  /\ S # {}
  /\ \A t \in S : /\ ~ENABLED ThreadStep(t)
                  /\ WaitsFor(t) # "none"
                  /\ mutex[WaitsFor(t)] \in S

NoDeadlock == ~\E S \in SUBSET DOMAIN threads : Deadlocked(S)

\* no insert, remove, find or search has read a table that a move
\* assignment had transferred in part
NoHalfTransferObserved ==
  \A t \in DOMAIN threads :
    threads[t].op \in {"insert", "remove", "find", "search"}
      => ~threads[t].stale

\* C14, as stated: movers in both directions and callers never deadlock,
\* no call sees a half-transferred table, and from the moment a mover has
\* the first of the two locks until it has the second no other operation
\* runs on either table
MoveLocksAtomically ==
  /\ NoDeadlock
  /\ NoHalfTransferObserved
  /\ \A u \in DOMAIN threads :
       threads[u].pc = "std_lock_try" =>
         \A t \in DOMAIN threads \ {u} :
           \A o \in {threads[u].obj, threads[u].other} : ~Running(t, o)

\* C14, amended: movers in both directions and callers never deadlock, no
\* call sees a half-transferred table, and while a mover holds both locks,
\* from the transfer to the release, no other operation runs on either
\* table
MoveLocksBothTables ==
  /\ NoDeadlock
  /\ NoHalfTransferObserved
  /\ \A u \in DOMAIN threads :
       threads[u].pc \in {"transfer", "transfer_counts", "transfer_reset",
                          "unlock_both"} =>
         /\ mutex[threads[u].obj] = u
         /\ mutex[threads[u].other] = u
         /\ \A t \in DOMAIN threads \ {u} :
              \A o \in {threads[u].obj, threads[u].other} : ~Running(t, o)

\* one thread is in the middle of a = move(b) while another one waits to
\* run b = move(a) and a third one has called find
MoveLocksBothTablesWitness ==
  \E u \in DOMAIN threads, v \in DOMAIN threads, c \in DOMAIN threads :
    /\ threads[u].pc = "transfer_reset"
    /\ threads[v].pc = "std_lock"
    /\ threads[v].obj = threads[u].other
    /\ threads[v].other = threads[u].obj
    /\ threads[c].op = "find"
    /\ threads[c].ret = "found"

\* the quotient n / d rounded to the nearest multiple of 1 / scale
Rounded(n, d, scale) ==
  CHOOSE q \in 0..(n * scale) :
    /\ 2 * d * q <= 2 * n * scale + d
    /\ 2 * n * scale - d <= 2 * d * q
    /\ (2 * d * q = 2 * n * scale + d \/ 2 * n * scale - d = 2 * d * q)
         => q % 2 = 0

\* C22: the statistics of a table report the number of buckets whose chain
\* is empty, the length of the longest chain (0 when there is none), an
\* element count equal to the sum of the chain lengths, and an average
\* chain length equal to the element count divided by the number of
\* non-empty buckets, to the two decimals printed, and 0 when every bucket
\* is empty
StatisticsAreExact ==
  last.op = "get_statistics" =>
    LET t == tables[last.obj]
        st == last.results[1]
        nonempty == {i \in 1..Len(t.table) : t.table[i] # <<>>}
    IN /\ st.empty_buckets = Len(t.table) - Cardinality(nonempty)
       /\ \A i \in 1..Len(t.table) : Len(t.table[i]) <= st.max_chain_length
       /\ \/ nonempty = {} /\ st.max_chain_length = 0
          \/ \E i \in nonempty : Len(t.table[i]) = st.max_chain_length
       /\ st.element_count = NodeCount(t)
       /\ st.avg_chain_length =
            IF nonempty = {} THEN 0
            ELSE Rounded(st.element_count, Cardinality(nonempty), 100)

\* statistics were taken of a table with a chain of two nodes, a chain of
\* one node and an empty bucket, and the average is not a whole number
StatisticsAreExactWitness ==
  /\ last.op = "get_statistics"
  /\ last.results[1].max_chain_length = 2
  /\ last.results[1].empty_buckets > 0
  /\ last.results[1].avg_chain_length = 150

\* C23: an update that returns true leaves bucket_count, element_count and
\* every node but the one of the key as they were, and find(key) then
\* returns the new record; an update that returns false changes nothing
UpdateChangesOnlyRecord ==
  [][last'.op = "update" =>
       LET t == tables[last'.obj]
           u == tables'[last'.obj]
           index == hash(last'.id, t.bucket_count) + 1
       IN /\ last'.ret = "true" =>
               /\ u.bucket_count = t.bucket_count
               /\ u.element_count = t.element_count
               /\ \A n \in NodesOf(t) :
                    n # <<index, FirstPos(t.table[index], last'.id)>>
                      => u.table[n[1]][n[2]] = t.table[n[1]][n[2]]
               /\ NodesOf(u) = NodesOf(t)
               /\ find(u, last'.id) = <<last'.emp>>
          /\ last'.ret = "false" => u = t]_vars

\* C25: every stored record sits in the bucket that hash gives for its id
\* under the current bucket_count, and find of the id of a record that
\* get_all returns gives that record
PlacementInvariant ==
  \A o \in DOMAIN tables :
    LET t == tables[o] IN
      /\ \A n \in NodesOf(t) :
           hash(t.table[n[1]][n[2]].id, t.bucket_count) = n[1] - 1
      /\ \A i \in 1..Len(get_all(t)) :
           find(t, get_all(t)[i].id) = <<get_all(t)[i]>>


\* C30: Load from Backup and Reload Data put into the live table only
\* records read from the file named: when that file does not exist or load
\* returns false, the live table keeps exactly the records it had
LoadKeepsTableOnFailure ==
  [][(/\ last'.op \in {"load_backup", "reload"}
      /\ last'.id \notin DOMAIN files \/ last'.ret = "false")
       => /\ "db" \in DOMAIN tables'
          /\ get_all(tables'["db"]) = get_all(tables["db"])]_vars

\* the fields Edit My Profile asks for
ProfileFields == {"firstName", "lastName", "phone", "email", "skills"}

\* C29: when Edit My Profile has succeeded, the stored record of the user
\* logged in differs from the one stored just before in no field other
\* than firstName, lastName, phone, email and skills
EditMyProfileFrame ==
  [][(last'.op = "edit_my_profile" /\ last'.ret = "true")
       => LET before == find(tables["db"], last'.id)
              after == find(tables'["db"], last'.id)
          IN /\ before # <<>>
             /\ after # <<>>
             /\ \A f \in DOMAIN Employee \ ProfileFields :
                  after[1][f] = before[1][f]]_vars

\* C28: while the menu program runs, the table it calls is the one object
\* alive and has buckets, whatever commands came before, so that no call
\* hashes a key modulo 0
NoCallOnZeroBuckets ==
  cli.phase = "running" =>
    /\ ~crashed
    /\ DOMAIN tables = {"db"}
    /\ tables["db"].bucket_count > 0

\* find has been called, and has returned, on a table that Load from
\* Backup, Reload or Clear All Data had put in the place of main's
NoCallOnZeroBucketsWitness ==
  /\ last.op = "find"
  /\ cli.phase = "running"
  /\ tables["db"].bucket_count = DEFAULT_BUCKET_COUNT

\* table u is table t with at most the record of id replaced by one of the
\* same id and the same access level
SameButProfile(t, u, id) ==
  /\ u.bucket_count = t.bucket_count
  /\ u.element_count = t.element_count
  /\ Len(u.table) = Len(t.table)
  /\ \A i \in 1..Len(t.table) :
       /\ Len(u.table[i]) = Len(t.table[i])
       /\ \A j \in 1..Len(t.table[i]) :
            \/ u.table[i][j] = t.table[i][j]
            \/ /\ t.table[i][j].id = id
               /\ u.table[i][j].id = id
               /\ u.table[i][j].accessLevel = t.table[i][j].accessLevel

\* C21: while a user with BASIC access is logged in, a command that does
\* not end the program leaves the files and the table as they are, except
\* Edit My Profile, which changes at most the record of that user and
\* neither its id nor its access level
BasicSessionEditsOwnProfileOnly ==
  [][(LoggedIn /\ ~IsAdmin /\ cli'.phase = "running")
       => /\ files' = files
          /\ DOMAIN tables' = DOMAIN tables
          /\ \/ tables' = tables
             \/ /\ last'.op = "edit_my_profile"
                /\ last'.id = cli.currentUser[1].id
                /\ SameButProfile(tables["db"], tables'["db"],
                                  cli.currentUser[1].id)]_vars

\* a user with BASIC access has changed their own profile
BasicSessionEditsOwnProfileOnlyWitness ==
  /\ LoggedIn
  /\ ~IsAdmin
  /\ last.op = "edit_my_profile"
  /\ last.ret = "true"
  /\ find(tables["db"], last.id) = <<last.emp>>
  /\ last.emp.firstName = FirstNames[2]


\* the table_mutex of o is held only by a thread inside the body of a call
\* on o or inside a move assignment of or from o
LockHeldInsideCallOnly ==
  \A o \in DOMAIN mutex :
    mutex[o] # 0 =>
      /\ o \in {threads[mutex[o]].obj, threads[mutex[o]].other}
      /\ threads[mutex[o]].pc \notin {"idle", "lock_guard"}

\* C24: no lock stays held after a call, also when validate has thrown in
\* insert or update, and under a fair scheduler every call returns
EveryCallReturns ==
  /\ []LockHeldInsideCallOnly
  /\ \A t \in RehashThreads :
       (threads[t].pc # "idle") ~> (threads[t].pc = "idle")

\* no lock stays held after a call, and under a fair scheduler every call
\* returns unless the process is killed
EveryCallReturnsUnlessKilled ==
  /\ []LockHeldInsideCallOnly
  /\ \A t \in RehashThreads :
       (threads[t].pc # "idle") ~> (threads[t].pc = "idle" \/ crashed)


\* the place of a mutex in the order: file_mutex, table_mutex, log_mutex
MutexRank(m) ==
  IF m \in MutexManagers THEN 1 ELSE IF m \in MutexTables THEN 2 ELSE 3

\* the mutex thread t is about to lock, "none" when its next step is not
\* a lock
LockWanted(t) ==
  IF threads[t].script # <<>> /\ Head(threads[t].script)[1] = "lock"
  THEN Head(threads[t].script)[2] ELSE "none"

\* C27: a thread locks a mutex only while every mutex it holds comes
\* earlier in the order file_mutex, table_mutex, log_mutex, never a mutex
\* it holds already, and the threads never wait for each other in a cycle
MutexOrder ==
  /\ \A t \in DOMAIN threads :
       LockWanted(t) # "none" =>
         \A m \in DOMAIN mutex :
           mutex[m] = t => MutexRank(m) < MutexRank(LockWanted(t))
  /\ ~\E S \in SUBSET DOMAIN threads :
        /\ S # {}
        /\ \A t \in S : LockWanted(t) # "none" /\ mutex[LockWanted(t)] \in S

\* save holds file_mutex and table_mutex and is inside the Logger::log of
\* search while another thread waits for log_mutex
MutexOrderWitness ==
  \E t \in DOMAIN threads, u \in DOMAIN threads :
    /\ mutex["data_manager"] = t
    /\ mutex["db"] = t
    /\ mutex["log_mutex"] = t
    /\ LockWanted(u) = "log_mutex"


\* the pointer r is the address of the object that table r.obj stores for
\* the key r.id, in tables tabs
RefersToStored(r, tabs) ==
  /\ r.obj \in DOMAIN tabs
  /\ tabs[r.obj].bucket_count > 0
  /\ find(tabs[r.obj], r.id) # <<>>
  /\ find(tabs[r.obj], r.id)[1].addr = r.addr

\* C26: a pointer that find(k) has returned goes on being the address of
\* the stored record of k through every insert, update and remove of
\* another key, and the object it points to is destroyed by remove(k) or
\* by a move assignment only
FindPointerStaysValid ==
  [][\A t \in DOMAIN threads :
       threads[t].ref # <<>> =>
         LET r == threads[t].ref[1] IN
           /\ (/\ RefersToStored(r, tables)
               /\ \/ last'.op \in {"insert", "update"}
                  \/ last'.op = "remove" /\ last'.id # r.id
                  \/ last'.op = "remove" /\ last'.obj # r.obj)
                => RefersToStored(r, tables')
           /\ (r.addr \in OwnedAddresses /\ r.addr \notin OwnedAddresses')
                => \/ last'.op = "remove" /\ last'.id = r.id
                   \/ last'.op = "move_assign"]_vars

\* a thread holds the pointer find returned for a key; since then an
\* insert has rehashed the table and the record has been updated, and the
\* pointer is still the address of the stored record
FindPointerStaysValidWitness ==
  \E t \in DOMAIN threads :
    /\ threads[t].ref # <<>>
    /\ RefersToStored(threads[t].ref[1], tables)
    /\ tables[threads[t].ref[1].obj].bucket_count = 5
    /\ find(tables[threads[t].ref[1].obj],
            threads[t].ref[1].id)[1].firstName = FirstNames[2]
    /\ last.op = "update"
    /\ last.id = threads[t].ref[1].id

====
